---- MODULE Spec2Model ----
(***************************************************************************)
(* Verification model of the Cypress training repository: its Jenkins      *)
(* pipelines and Windows batch script, its test suites (hooks, suite-level *)
(* variables, intercepts) and its custom login command / page object.      *)
(*                                                                         *)
(* Specifications:                                                         *)
(*   SpecCI    docker-agent pipeline (Jenkinsfile) next to the batch       *)
(*             script, both fed the same workspace and the same tool       *)
(*             results                                                     *)
(*   SpecNode  the two NodeJS-tool pipelines (Jenkinsfile, parameterized)  *)
(***************************************************************************)
EXTENDS Integers, Sequences, FiniteSets, TLC

VARIABLES
    \* ---- workspace and tool results shared by the CI scripts ----
    hasLock,        \* package-lock.json exists in the workspace
    preJson,        \* cypress/reports/*.json left over from an earlier build
    oracle,         \* exit status of the tools both scripts invoke
    \* ---- docker-agent pipeline (src/Jenkinsfile:1-113) ----
    dstage,         \* next stage to run, "post", or "done"
    dresult,        \* currentBuild result
    dtrace,         \* steps executed so far
    djson,          \* cypress/reports/*.json exists
    dhtml,          \* cypress/reports/mochawesome.html exists
    \* ---- batch script (src/cypress.config.prod.js:31-84) ----
    bstage,
    btrace,
    bjson,
    \* ---- NodeJS-tool pipelines (src/Jenkinsfile:133-236, part_000:20-148) ----
    variant,        \* "Jenkinsfile" or "parameterized"
    isUnix,
    SPEC_FILE,
    CUSTOM_SPECS,
    nstage,
    nresult,
    ntrace,
    nstarted,       \* names of the stages entered, in order
    nresults,       \* nresults[i]: stage nstarted[i] succeeded
    cliSpec,        \* <<v>> once "cypress run --spec v" was issued, else <<>>
    \* ---- one run of a spec file (describe block) ----
    suite,          \* which describe block runs
    plan,           \* the tests still to run, in order
    phase,          \* "before", "start", "beforeEach", "test", "afterEach",
                    \* "after", "done"
    current,        \* title of the test being run, or "none"
    ran,            \* titles of the tests whose body ran, in order
    failed,         \* titles of the tests that failed
    cmds,           \* commands issued so far: [by, cmd, arg]
    createdUserId,  \* let createdUserId (part_004:4): <<>> is undefined
    authToken,      \* Cypress.env('authToken'): <<>> is undefined
    loginData,      \* let loginData (Login.cy.js:28): <<>> is undefined
    mockData,       \* let mockData (mockingandenvvariables.cy.js:26)
    writer,         \* who last wrote each of the four, "none" if nobody
    fixtureLoads,   \* how many times each fixture file was loaded
    reads,          \* every read of the four so far: [var, writer, reader]
    routes,         \* the active intercepts, oldest first
    served,         \* browser requests answered so far: [by, url, owner]
    browser,        \* [page, cookies, localStorage]: a page is loaded, there
                    \* are cookies, there are localStorage entries
    \* ---- a login through cy.login or the LoginPage page object, done ----
    \* ---- twice: runs 1 and 2 differ in nothing but the password      ----
    lcall,          \* [api, userType]: the call made; userType <<>> if omitted
    lkeys,          \* the user types the fixture file has
    lpass,          \* lpass[r]: the password in the fixture of run r
    lfail,          \* which command fails when run (0: none), both runs alike
    lpc,            \* lpc[r]: "start", "then", "run", "done"
    lqueue,         \* lqueue[r]: commands enqueued and not yet run
    lissued,        \* lissued[r]: every command enqueued so far
    llog,           \* llog[r]: the entries of the command log
    lalias,         \* lalias[r]: the aliases set
    lerr,           \* lerr[r]: <<message>> of the error that ended the run

    \* ---- cy.get(field).typeAndVerify(text) ----
    tsubject,       \* the element the command is called on
    ttext,          \* the text argument, a sequence of keys
    tprior,         \* the value of the field before the call
    tactionable,    \* the field can be cleared and typed into
    tvalue,         \* the value of the field
    tpc,            \* "clear", "type", "should", "log", "wrap", "done"
    terr,           \* <<message>> of the error that ended the command
    tlog,           \* the cy.log messages
    tyield,         \* <<element>> the command yielded

    \* ---- a test body calling methods of the LoginPage instance ----
    puser,          \* the username the test passes
    ppass,          \* the password the test passes
    penv,           \* LOGIN_USERNAME and LOGIN_PASSWORD are set in Cypress.env
    pcalls,         \* the methods called so far, in order
    pqueue,         \* the commands enqueued so far
    pret,           \* what the last call returned: "LoginPage", or "none"
    perr,           \* <<message>> of the error a method threw

    \* ---- cy.getEnvVariable and cy.checkFeatureFlag reading Cypress.env ----
    ecmd,           \* the command called
    ename,          \* varName or flagName
    edefault,       \* the defaultValue argument, Undefined if omitted
    eenv,           \* Cypress.env: a value for each plain variable, or Undefined
    eflagsKind,     \* Cypress.env('featureFlags'): "undefined", "null", "object"
    eflags,         \* its own properties when it is an object
    epc,            \* "call", "done"
    elog,           \* the cy.log messages
    eyield,         \* the value the command yielded

    \* ---- cy.apiRequest and the helpers built on it ----
    hcmd,           \* the command called
    hmethod,        \* options.method of cy.apiRequest: <<>> or <<method>>
    hurl,           \* the url given
    hbody,          \* the body or data given: <<>> or <<body>>
    hqs,            \* the query parameters given, a set of names
    hheaders,       \* the headers given, a set of names
    hfailopt,       \* options.failOnStatusCode: <<>> or <<boolean>>
    htoken,         \* Cypress.env('authToken'): <<>> or <<token>>
    hstatus,        \* the status the server answers with; 0: no answer
    hpc,            \* "call", "request", "done"
    hconfig,        \* <<requestConfig>> passed to cy.request
    hrequests,      \* the HTTP requests issued
    hlog,           \* the cy.log messages
    herr,           \* <<message>> of the error that ended the command
    hyield,         \* <<response>> the command yielded

    \* ---- response.validateSchema(schema).validateHeaders(expected) ----
    vbody,          \* response.body: [isArray, items]; one item if no array
    vheaders,       \* response.headers: the values of content-type
    vrequired,      \* schema.requiredFields, a set of field names
    vtypes,         \* schema.types: the typeof listed per field, "" if none
    vexpected,      \* expectedHeaders: header name and the value it includes
    vpc,            \* "schema", "headers", "done"
    verr,           \* <<error>> that ended the chain
    vlog,           \* the cy.log messages
    vyield,         \* <<response>> the last command yielded

    \* ---- cy.typeInTinyMce(iframeSelector, text) ----
    mtext,          \* the text argument, a sequence of characters and markup
    mprior,         \* the paragraphs of the iframe body before the first call
    mframe,         \* the selector finds an iframe
    mcontent,       \* the paragraphs of the iframe body
    mcount,         \* how often the command was applied
    mfirst,         \* <<content>> after the first application
    merr,           \* <<message>> of the error that ended the command

    \* ---- envconfig.js and cypress.config.js loaded for a run ----
    cenv,           \* process.env.CYPRESS_ENV: <<>> if unset, else <<value>>
    cmode,          \* "run" (cypress run) or "open" (cypress open)
    cfails,         \* how many attempts of the test fail before one passes
    cpc,            \* "envconfig", "config", "test", "done"
    currentEnv,     \* currentEnv of envconfig.js
    cconfig,        \* envConfig of cypress.config.js
    csettings,      \* the e2e settings cypress.config.js exports
    cattempts,      \* attempts of the test made so far
    cresult         \* "passed", "failed" or "none"

envVars    == <<hasLock, preJson, oracle>>
dockerVars == <<dstage, dresult, dtrace, djson, dhtml>>
batVars    == <<bstage, btrace, bjson>>
nodeVars   == <<variant, isUnix, SPEC_FILE, CUSTOM_SPECS, nstage, nresult,
                ntrace, nstarted, nresults, cliSpec>>
runVars    == <<suite, plan, phase, current, ran, failed, cmds, createdUserId,
                authToken, loginData, mockData, writer, fixtureLoads, reads,
                routes, served, browser>>
loginVars  == <<lcall, lkeys, lpass, lfail, lpc, lqueue, lissued, llog,
                lalias, lerr>>
typeVars   == <<tsubject, ttext, tprior, tactionable, tvalue, tpc, terr, tlog,
                tyield>>
pageVars   == <<puser, ppass, penv, pcalls, pqueue, pret, perr>>
cyenvVars  == <<ecmd, ename, edefault, eenv, eflagsKind, eflags, epc, elog,
                eyield>>
httpVars   == <<hcmd, hmethod, hurl, hbody, hqs, hheaders, hfailopt, htoken,
                hstatus, hpc, hconfig, hrequests, hlog, herr, hyield>>
schemaVars == <<vbody, vheaders, vrequired, vtypes, vexpected, vpc, verr,
                vlog, vyield>>
tinyVars   == <<mtext, mprior, mframe, mcontent, mcount, mfirst, merr>>
cfgVars    == <<cenv, cmode, cfails, cpc, currentEnv, cconfig, csettings,
                cattempts, cresult>>
vars       == <<envVars, dockerVars, batVars, nodeVars, runVars, loginVars,
               typeVars,
               pageVars,
               cyenvVars,
               httpVars,
               schemaVars,
               tinyVars,
               cfgVars>>

\* what a step of one part leaves alone
DockerFrame == UNCHANGED <<envVars, batVars, nodeVars, runVars, loginVars,
                         typeVars,
                         pageVars,
                         cyenvVars,
                         httpVars,
                         schemaVars,
                         tinyVars,
                         cfgVars>>
BatFrame    == UNCHANGED <<envVars, dockerVars, nodeVars, runVars, loginVars,
                         typeVars,
                         pageVars,
                         cyenvVars,
                         httpVars,
                         schemaVars,
                         tinyVars,
                         cfgVars>>
NodeFrame   == UNCHANGED <<envVars, dockerVars, batVars, runVars, loginVars,
                         typeVars,
                         pageVars,
                         cyenvVars,
                         httpVars,
                         schemaVars,
                         tinyVars,
                         cfgVars>>
RunFrame    == UNCHANGED <<envVars, dockerVars, batVars, nodeVars, loginVars,
                         typeVars,
                         pageVars,
                         cyenvVars,
                         httpVars,
                         schemaVars,
                         tinyVars,
                         cfgVars>>
LoginFrame  == UNCHANGED <<envVars, dockerVars, batVars, nodeVars, runVars,
                         typeVars,
                         pageVars,
                         cyenvVars,
                         httpVars,
                         schemaVars,
                         tinyVars,
                         cfgVars>>
TypeFrame ==
    UNCHANGED <<envVars, dockerVars, batVars, nodeVars, runVars, loginVars,
                         pageVars,
                         cyenvVars,
                         httpVars,
                         schemaVars,
                         tinyVars,
                         cfgVars>>
PageFrame ==
    UNCHANGED <<envVars, dockerVars, batVars,
                nodeVars, runVars, loginVars, typeVars,
                         cyenvVars,
                         httpVars,
                         schemaVars,
                         tinyVars,
                         cfgVars>>
CyEnvFrame ==
    UNCHANGED <<envVars, dockerVars, batVars, nodeVars,
                runVars, loginVars, typeVars, pageVars,
                         httpVars,
                         schemaVars,
                         tinyVars,
                         cfgVars>>
HttpFrame ==
    UNCHANGED <<envVars, dockerVars, batVars, nodeVars,
                runVars, loginVars, typeVars, pageVars, cyenvVars,
                         schemaVars,
                         tinyVars,
                         cfgVars>>
SchemaFrame ==
    UNCHANGED <<envVars, dockerVars, batVars, nodeVars, runVars,
                loginVars, typeVars, pageVars, cyenvVars, httpVars,
                         tinyVars,
                         cfgVars>>
TinyFrame ==
    UNCHANGED <<envVars, dockerVars, batVars, nodeVars, runVars,
                loginVars, typeVars, pageVars, cyenvVars, httpVars, schemaVars,
                         cfgVars>>
CfgFrame ==
    UNCHANGED <<envVars, dockerVars, batVars, nodeVars, runVars, loginVars,
                typeVars, pageVars, cyenvVars, httpVars, schemaVars, tinyVars>>

----------------------------------------------------------------------------
(* Helpers                                                                 *)

Range(s) == {s[i] : i \in 1..Len(s)}

RECURSIVE SelectIn(_, _)
\* the subsequence of s made of the elements that are in set S
SelectIn(s, S) ==
    IF s = <<>> THEN <<>>
    ELSE IF Head(s) \in S THEN <<Head(s)>> \o SelectIn(Tail(s), S)
         ELSE SelectIn(Tail(s), S)

IsPrefix(s, t) == Len(s) <= Len(t) /\ SubSeq(t, 1, Len(s)) = s

----------------------------------------------------------------------------
(* Docker-agent pipeline: src/Jenkinsfile lines 1-113                      *)

\* a failed stage fails the build and skips every later stage
DockerFail == dresult' = "FAILURE" /\ dstage' = "post"

\* stage('Checkout')
DockerCheckout ==
    /\ dstage = "Checkout"
    /\ dtrace' = Append(dtrace, "checkout scm")
    /\ \E ok \in BOOLEAN :
          IF ok THEN dstage' = "Install Dependencies" /\ UNCHANGED dresult
          ELSE DockerFail
    /\ UNCHANGED <<djson, dhtml>>
    /\ DockerFrame

\* stage('Install Dependencies'): sh with set -e
DockerInstall ==
    /\ dstage = "Install Dependencies"
    /\ dtrace' = Append(dtrace, IF hasLock THEN "npm ci" ELSE "npm install")
    /\ IF oracle.install
       THEN dstage' = "Run Cypress" /\ UNCHANGED dresult
       ELSE DockerFail
    /\ UNCHANGED <<djson, dhtml>>
    /\ DockerFrame

\* stage('Run Cypress (Headless + JSON reports)'): sh with set -e; the
\* mochawesome reporter writes one JSON file per spec it ran
DockerRunCypress ==
    /\ dstage = "Run Cypress"
    /\ dtrace' = Append(dtrace, "cypress run")
    /\ djson' = (djson \/ oracle.jsonProduced)
    /\ IF oracle.cypress
       THEN dstage' = "Merge & Generate HTML" /\ UNCHANGED dresult
       ELSE DockerFail
    /\ UNCHANGED dhtml
    /\ DockerFrame

\* the mutant of the merge stage: merges without looking for JSON reports
DockerMergeUnguarded ==
    /\ dstage = "Merge & Generate HTML"
    /\ IF ~oracle.merge
       THEN /\ dtrace' = Append(dtrace, "mochawesome-merge")
            /\ DockerFail
            /\ UNCHANGED dhtml
       ELSE IF ~oracle.marge
       THEN /\ dtrace' = dtrace \o <<"mochawesome-merge", "marge">>
            /\ DockerFail
            /\ UNCHANGED dhtml
       ELSE /\ dtrace' = dtrace \o <<"mochawesome-merge", "marge">>
            /\ \E html \in BOOLEAN : dhtml' = (dhtml \/ html)
            /\ dstage' = "Diagnostics"
            /\ UNCHANGED dresult
    /\ UNCHANGED djson
    /\ DockerFrame

\* stage('Merge & Generate HTML (Mochawesome)'): sh with set -e;
\* if ls cypress/reports/*.json then merge, then marge, else echo
DockerMerge ==
    /\ dstage = "Merge & Generate HTML"
    /\ IF djson
       THEN IF ~oracle.merge
            THEN /\ dtrace' = Append(dtrace, "mochawesome-merge")
                 /\ DockerFail
                 /\ UNCHANGED dhtml
            ELSE IF ~oracle.marge
            THEN /\ dtrace' = dtrace \o <<"mochawesome-merge", "marge">>
                 /\ DockerFail
                 /\ UNCHANGED dhtml
            ELSE /\ dtrace' = dtrace \o <<"mochawesome-merge", "marge">>
                 /\ \E html \in BOOLEAN : dhtml' = (dhtml \/ html)
                 /\ dstage' = "Diagnostics"
                 /\ UNCHANGED dresult
       ELSE /\ dtrace' = Append(dtrace, "echo No Mochawesome JSON reports found to merge.")
            /\ dstage' = "Diagnostics"
            /\ UNCHANGED <<dresult, dhtml>>
    /\ UNCHANGED djson
    /\ DockerFrame

\* stage('Diagnostics (list files)'): no set -e, every line ends in || true
DockerDiagnostics ==
    /\ dstage = "Diagnostics"
    /\ dtrace' = Append(dtrace, "ls cypress")
    /\ dstage' = "Publish Reports & Artifacts"
    /\ UNCHANGED <<dresult, djson, dhtml>>
    /\ DockerFrame

ArchiveSteps ==
    << "archiveArtifacts videos", "archiveArtifacts screenshots",
       "archiveArtifacts reports" >>

\* stage('Publish Reports & Artifacts'): publishHTML only if the file exists,
\* then the three archiveArtifacts steps (allowEmptyArchive: true)
DockerPublish ==
    /\ dstage = "Publish Reports & Artifacts"
    /\ IF dhtml
       THEN \E ok \in BOOLEAN :
              IF ok
              THEN /\ dtrace' = dtrace \o <<"publishHTML">> \o ArchiveSteps
                   /\ dstage' = "post"
                   /\ UNCHANGED dresult
              ELSE /\ dtrace' = Append(dtrace, "publishHTML")
                   /\ DockerFail
       ELSE /\ dtrace' = dtrace \o <<"echo No mochawesome.html found to publish.">>
                                \o ArchiveSteps
            /\ dstage' = "post"
            /\ UNCHANGED dresult
    /\ UNCHANGED <<djson, dhtml>>
    /\ DockerFrame

\* post { always {...} success {...} failure {...} }: Jenkins runs always
\* first, then the condition matching the build result
DockerPost ==
    /\ dstage = "post"
    /\ dtrace' = dtrace \o
          << "echo Build finished; artifacts uploaded.",
             IF dresult = "SUCCESS" THEN "echo Cypress pipeline succeeded."
             ELSE "echo Cypress pipeline failed. Check reports/videos." >>
    /\ dstage' = "done"
    /\ UNCHANGED <<dresult, djson, dhtml>>
    /\ DockerFrame

----------------------------------------------------------------------------
(* Batch script: src/cypress.config.prod.js lines 31-84.  cmd.exe has no   *)
(* set -e: a command's errorlevel is ignored unless the script tests it,   *)
(* and this script never does.                                             *)

\* lines 37-49: versions, then npm ci / npm install
BatInstall ==
    /\ bstage = "Install"
    /\ btrace' = btrace \o << "node -v", "npm -v",
                              IF hasLock THEN "npm ci" ELSE "npm install" >>
    /\ bstage' = "Toolchain"
    /\ UNCHANGED bjson
    /\ BatFrame

\* lines 51-54: call npm ls X || npm i -D X, for the three reporter packages
BatToolchain ==
    /\ bstage = "Toolchain"
    /\ \E missing \in SUBSET {"mochawesome", "mochawesome-merge",
                              "mochawesome-report-generator"} :
          btrace' = btrace
             \o << "npm ls mochawesome" >>
             \o (IF "mochawesome" \in missing
                 THEN << "npm i -D mochawesome" >> ELSE <<>>)
             \o << "npm ls mochawesome-merge" >>
             \o (IF "mochawesome-merge" \in missing
                 THEN << "npm i -D mochawesome-merge" >> ELSE <<>>)
             \o << "npm ls mochawesome-report-generator" >>
             \o (IF "mochawesome-report-generator" \in missing
                 THEN << "npm i -D mochawesome-report-generator" >> ELSE <<>>)
    /\ bstage' = "Run Cypress"
    /\ UNCHANGED bjson
    /\ BatFrame

\* lines 56-60
BatRunCypress ==
    /\ bstage = "Run Cypress"
    /\ btrace' = Append(btrace, "cypress run")
    /\ bjson' = (bjson \/ oracle.jsonProduced)
    /\ bstage' = "Merge"
    /\ BatFrame

\* lines 62-68: if exist cypress\reports\*.json ( merge, marge ) else echo
BatMerge ==
    /\ bstage = "Merge"
    /\ btrace' = IF bjson
                 THEN btrace \o <<"mochawesome-merge", "marge">>
                 ELSE Append(btrace, "echo No Mochawesome JSON reports found to merge.")
    /\ bstage' = "Diagnostics"
    /\ UNCHANGED bjson
    /\ BatFrame

\* lines 70-77: the cypress folder is part of the repository
BatDiagnostics ==
    /\ bstage = "Diagnostics"
    /\ btrace' = Append(btrace, "dir cypress")
    /\ bstage' = "Dummy"
    /\ UNCHANGED bjson
    /\ BatFrame

\* lines 79-84
BatDummy ==
    /\ bstage = "Dummy"
    /\ btrace' = Append(btrace, "echo dummy > cypress\\reports\\_dummy.txt")
    /\ bstage' = "done"
    /\ UNCHANGED bjson
    /\ BatFrame

----------------------------------------------------------------------------
(* NodeJS-tool pipelines: src/Jenkinsfile lines 133-236 ("Jenkinsfile")    *)
(* and src/unnamed/part_000 lines 20-148 ("parameterized").  Their         *)
(* Checkout, Install Dependencies and Verify Cypress stages and their post *)
(* sections are the same text.                                             *)
(*                                                                         *)
(* A string is the sequence of its pieces; the piece " " is white space.   *)

\* a few of the sixteen choices of parameter SPEC_FILE (part_000:27-44);
\* the first one is the default
SpecChoices ==
    { <<"cypress/e2e/**/*.cy.js">>, <<"cypress/e2e/Day2/Login.cy.js">>,
      <<"CUSTOM">> }

\* values typed into the string parameter CUSTOM_SPECS (default '')
CustomValues ==
    { <<>>, <<" ">>, <<"a.cy.js,b.cy.js">>, <<" ", "a.cy.js", " ">> }

RECURSIVE TrimLeft(_)
TrimLeft(str) ==
    IF str # <<>> /\ Head(str) = " " THEN TrimLeft(Tail(str)) ELSE str

RECURSIVE Reverse(_)
Reverse(str) ==
    IF str = <<>> THEN <<>> ELSE Append(Reverse(Tail(str)), Head(str))

\* String.trim(): drops leading and trailing white space
Trim(str) == Reverse(TrimLeft(Reverse(TrimLeft(str))))

\* the mutant of specsToRun: tests CUSTOM_SPECS without trimming it
specsToRunNoTrim ==
    IF SPEC_FILE = <<"CUSTOM">> /\ CUSTOM_SPECS # <<>>
    THEN CUSTOM_SPECS
    ELSE SPEC_FILE

\* part_000:109-112.  Groovy truth of a string: it is not empty.
specsToRun ==
    IF SPEC_FILE = <<"CUSTOM">> /\ Trim(CUSTOM_SPECS) # <<>>
    THEN CUSTOM_SPECS
    ELSE SPEC_FILE

\* if (isUnix()) sh ... else bat ...
Shell == IF isUnix THEN "sh" ELSE "bat"

\* stage s ends with status ok: a failed stage fails the build and skips
\* every later stage
NodeStageEnd(s, ok, next) ==
    /\ nstarted' = Append(nstarted, s)
    /\ nresults' = Append(nresults, ok)
    /\ IF ok THEN nstage' = next /\ UNCHANGED nresult
       ELSE nstage' = "post" /\ nresult' = "FAILURE"

\* stage('Checkout')
NodeCheckout ==
    /\ nstage = "Checkout"
    /\ ntrace' = ntrace \o << <<"echo", "Checking out source code...">>,
                              <<"checkout", "scm">> >>
    /\ \E ok \in BOOLEAN : NodeStageEnd("Checkout", ok, "Install Dependencies")
    /\ UNCHANGED <<variant, isUnix, SPEC_FILE, CUSTOM_SPECS, cliSpec>>
    /\ NodeFrame

\* stage('Install Dependencies'): npm ci || npm install
NodeInstall ==
    /\ nstage = "Install Dependencies"
    /\ \E ciOk \in BOOLEAN, installOk \in BOOLEAN :
         /\ ntrace' = ntrace
               \o << <<"echo", "Installing npm dependencies...">>,
                     <<Shell, "npm ci">> >>
               \o (IF ciOk THEN <<>> ELSE << <<Shell, "npm install">> >>)
         /\ NodeStageEnd("Install Dependencies", ciOk \/ installOk,
                         "Verify Cypress")
    /\ UNCHANGED <<variant, isUnix, SPEC_FILE, CUSTOM_SPECS, cliSpec>>
    /\ NodeFrame

\* the mutant of the verify stage: its failure does not stop the pipeline
NodeVerifyLenient ==
    /\ nstage = "Verify Cypress"
    /\ ntrace' = ntrace \o << <<"echo", "Verifying Cypress installation...">>,
                              <<Shell, "npx cypress verify">> >>
    /\ \E ok \in BOOLEAN :
         /\ nstarted' = Append(nstarted, "Verify Cypress")
         /\ nresults' = Append(nresults, ok)
         /\ nstage' = "Run Cypress Tests"
         /\ nresult' = IF ok THEN nresult ELSE "FAILURE"
    /\ UNCHANGED <<variant, isUnix, SPEC_FILE, CUSTOM_SPECS, cliSpec>>
    /\ NodeFrame

\* stage('Verify Cypress')
NodeVerify ==
    /\ nstage = "Verify Cypress"
    /\ ntrace' = ntrace \o << <<"echo", "Verifying Cypress installation...">>,
                              <<Shell, "npx cypress verify">> >>
    /\ \E ok \in BOOLEAN : NodeStageEnd("Verify Cypress", ok, "Run Cypress Tests")
    /\ UNCHANGED <<variant, isUnix, SPEC_FILE, CUSTOM_SPECS, cliSpec>>
    /\ NodeFrame

\* stage('Run Cypress Tests') of the parameterized pipeline, part_000:105-123
NodeRunParam ==
    /\ nstage = "Run Cypress Tests"
    /\ variant = "parameterized"
    /\ ntrace' = ntrace \o << <<"echo", "Running Cypress tests">>,
                              <<Shell, "npx cypress run --spec">> >>
    /\ cliSpec' = <<specsToRun>>
    /\ \E ok \in BOOLEAN : NodeStageEnd("Run Cypress Tests", ok, "post")
    /\ UNCHANGED <<variant, isUnix, SPEC_FILE, CUSTOM_SPECS>>
    /\ NodeFrame

\* stage('Run Cypress Tests') of src/Jenkinsfile:187-198
NodeRunAll ==
    /\ nstage = "Run Cypress Tests"
    /\ variant = "Jenkinsfile"
    /\ ntrace' = ntrace \o << <<"echo", "Running Cypress tests...">>,
                              <<Shell, "npx cypress run">> >>
    /\ \E ok \in BOOLEAN :
          NodeStageEnd("Run Cypress Tests", ok, "Run Day 4 Tests Only")
    /\ UNCHANGED <<variant, isUnix, SPEC_FILE, CUSTOM_SPECS, cliSpec>>
    /\ NodeFrame

\* stage('Run Day 4 Tests Only') of src/Jenkinsfile:200-211
NodeRunDay4 ==
    /\ nstage = "Run Day 4 Tests Only"
    /\ ntrace' = ntrace \o << <<"echo", "Running Day 4 CI/CD demo tests...">>,
                              <<Shell, "npx cypress run --spec">> >>
    /\ cliSpec' = << <<"cypress/e2e/Day4/*.cy.js">> >>
    /\ \E ok \in BOOLEAN : NodeStageEnd("Run Day 4 Tests Only", ok, "post")
    /\ UNCHANGED <<variant, isUnix, SPEC_FILE, CUSTOM_SPECS>>
    /\ NodeFrame

NodeArchive ==
    << <<"archiveArtifacts", "cypress/videos/**/*.mp4">>,
       <<"archiveArtifacts", "cypress/screenshots/**/*.png">>,
       <<"archiveArtifacts", "cypress/reports/**/*">> >>

\* post { always {...} success {...} failure {...} }
NodePost ==
    /\ nstage = "post"
    /\ ntrace' = ntrace
          \o << <<"echo", "Archiving test artifacts...">> >>
          \o NodeArchive
          \o << IF nresult = "SUCCESS"
                THEN <<"echo", "All Cypress tests passed successfully!">>
                ELSE <<"echo", "Some tests failed. Check the reports and screenshots.">> >>
    /\ nstage' = "done"
    /\ UNCHANGED <<variant, isUnix, SPEC_FILE, CUSTOM_SPECS, nresult,
                   nstarted, nresults, cliSpec>>
    /\ NodeFrame

----------------------------------------------------------------------------
(* One run of a spec file.  Mocha runs before() once, then for every test  *)
(* beforeEach(), the test body and afterEach(), then after() once          *)
(* (Login.cy.js:30-34, 51-55, 90-94, 114-118).  A step of the model is one *)
(* hook or one test body: the commands it enqueues, run to the end.        *)

\* the describe blocks modelled; "Commands" is a spec file whose tests call
\* the custom commands of the command library
TestsOf(s) ==
    CASE s = "ApiHooksDemo" ->
            {"lists users", "creates a user and captures its id",
             "updates a user (PUT)"}
      [] s = "Commands" ->
            {"calls cy.apiLogin", "calls cy.apiAuthRequest",
             "calls cy.interceptAndMock"}
      [] s = "Login" -> {"TC001", "TC002", "TC003"}
      [] s = "Mocking" ->
            {"intercepts and mocks a GET request with inline data",
             "mocks a successful response using fixture data"}

Suites == {"ApiHooksDemo", "Commands", "Login", "Mocking"}

AllTests == UNION {TestsOf(s) : s \in Suites}

\* the hooks each describe block declares
HooksOf(s) ==
    CASE s = "ApiHooksDemo" -> {"before", "beforeEach", "afterEach", "after"}
      [] s = "Commands" -> {}
      [] s = "Login" -> {"before", "beforeEach", "afterEach", "after"}
      [] s = "Mocking" -> {"before"}

\* every subset of the tests of a describe block, in every order
Plans(s) ==
    { p \in UNION {[1..n -> TestsOf(s)] : n \in 1..Cardinality(TestsOf(s))} :
        \A i, j \in 1..Len(p) : i # j => p[i] # p[j] }

\* who is running: a test (its beforeEach, body and afterEach) or a
\* suite-level hook
Owner ==
    CASE phase = "before" -> "before()"
      [] phase = "after" -> "after()"
      [] OTHER -> current

Cmd(c, a) == [by |-> Owner, cmd |-> c, arg |-> a]

\* reading suite-level variable or env entry v
Read(v) == [var |-> v, writer |-> writer[v], reader |-> Owner]

\* after afterEach(): the next test, or after() when none is left
NextPhase(ph) ==
    CASE ph = "before" -> "start"
      [] ph = "beforeEach" -> "test"
      [] ph = "test" -> "afterEach"
      [] ph = "afterEach" -> (IF plan = <<>> THEN "after" ELSE "start")
      [] ph = "after" -> "done"

\* the mutant of RoutesAtTestStart: intercepts outlive their test
RoutesKept == routes

\* the framework drops every intercept before a test starts
RoutesAtTestStart == <<>>

\* the framework starts the next test of the plan
StartTest ==
    /\ phase = "start"
    /\ plan # <<>>
    /\ current' = Head(plan)
    /\ plan' = Tail(plan)
    /\ routes' = RoutesAtTestStart
    /\ phase' = "beforeEach"
    /\ UNCHANGED <<suite, ran, failed, cmds, createdUserId, authToken,
                   loginData, mockData, writer, fixtureLoads, reads, served,
                   browser>>
    /\ RunFrame

\* a hook the describe block does not declare is not run
SkipHook ==
    /\ phase \in {"before", "beforeEach", "afterEach", "after"}
    /\ phase \notin HooksOf(suite)
    /\ phase' = NextPhase(phase)
    /\ UNCHANGED <<suite, plan, current, ran, failed, cmds, createdUserId,
                   authToken, loginData, mockData, writer, fixtureLoads,
                   reads, routes, served, browser>>
    /\ RunFrame

\* a test body ends: passed or failed, afterEach() is next
EndTest(ok) ==
    /\ ran' = Append(ran, current)
    /\ failed' = IF ok THEN failed ELSE failed \cup {current}
    /\ phase' = "afterEach"

----------------------------------------------------------------------------
(* describe('API Hooks Demo (JSONPlaceholder)'): src/unnamed/part_004      *)

\* ids the fake API may return in the body of the POST; "0" is the number 0
Ids == {"0", "11"}

\* JavaScript truth of createdUserId: undefined and 0 are false
Truthy(id) == id # <<>> /\ id # <<"0">>

AH_before ==
    /\ suite = "ApiHooksDemo" /\ phase = "before"
    /\ cmds' = Append(cmds, Cmd("cy.log", <<"before(): suite-level setup for API tests">>))
    /\ phase' = NextPhase(phase)
    /\ UNCHANGED <<suite, plan, current, ran, failed, createdUserId, authToken,
                   loginData, mockData, writer, fixtureLoads, reads, routes,
                   served, browser>>
    /\ RunFrame

AH_beforeEach ==
    /\ suite = "ApiHooksDemo" /\ phase = "beforeEach"
    /\ cmds' = Append(cmds, Cmd("cy.log", <<"beforeEach(): nothing heavy here">>))
    /\ phase' = NextPhase(phase)
    /\ UNCHANGED <<suite, plan, current, ran, failed, createdUserId, authToken,
                   loginData, mockData, writer, fixtureLoads, reads, routes,
                   served, browser>>
    /\ RunFrame

AH_afterEach ==
    /\ suite = "ApiHooksDemo" /\ phase = "afterEach"
    /\ cmds' = Append(cmds, Cmd("cy.log", <<"afterEach(): per-test cleanup (if needed)">>))
    /\ phase' = NextPhase(phase)
    /\ UNCHANGED <<suite, plan, current, ran, failed, createdUserId, authToken,
                   loginData, mockData, writer, fixtureLoads, reads, routes,
                   served, browser>>
    /\ RunFrame

\* after(): if (createdUserId) cy.request('DELETE', .../users/${createdUserId})
AH_after ==
    /\ suite = "ApiHooksDemo" /\ phase = "after"
    /\ reads' = reads \cup {Read("createdUserId")}
    /\ cmds' = cmds
         \o << Cmd("cy.log", <<"after(): clean up users if created">>) >>
         \o (IF Truthy(createdUserId)
             THEN << Cmd("cy.request", <<"DELETE", "/users/">> \o createdUserId) >>
             ELSE <<>>)
    /\ phase' = NextPhase(phase)
    /\ UNCHANGED <<suite, plan, current, ran, failed, createdUserId, authToken,
                   loginData, mockData, writer, fixtureLoads, routes, served,
                   browser>>
    /\ RunFrame

\* it('lists users')
AH_listsUsers ==
    /\ suite = "ApiHooksDemo" /\ phase = "test"
    /\ current = "lists users"
    /\ cmds' = Append(cmds, Cmd("cy.request", <<"GET", "/users">>))
    /\ \E ok \in BOOLEAN : EndTest(ok)
    /\ UNCHANGED <<suite, plan, current, createdUserId, authToken, loginData,
                   mockData, writer, fixtureLoads, reads, routes, served, browser>>
    /\ RunFrame

\* it('creates a user and captures its id'): the id is stored only after
\* both expectations passed
AH_createsUser ==
    /\ suite = "ApiHooksDemo" /\ phase = "test"
    /\ current = "creates a user and captures its id"
    /\ cmds' = Append(cmds, Cmd("cy.request", <<"POST", "/users">>))
    /\ \E status \in {201, 500}, id \in {<<>>} \cup {<<i>> : i \in Ids} :
         IF status = 201 /\ id # <<>>
         THEN /\ createdUserId' = id
              /\ writer' = [writer EXCEPT !["createdUserId"] = current]
              /\ EndTest(TRUE)
         ELSE /\ UNCHANGED <<createdUserId, writer>>
              /\ EndTest(FALSE)
    /\ UNCHANGED <<suite, plan, current, authToken, loginData, mockData,
                   fixtureLoads, reads, routes, served, browser>>
    /\ RunFrame

\* the mutant of the PUT test: it updates the user the POST test created
AH_updatesCreatedUser ==
    /\ suite = "ApiHooksDemo" /\ phase = "test"
    /\ current = "updates a user (PUT)"
    /\ reads' = reads \cup {Read("createdUserId")}
    /\ cmds' = Append(cmds, Cmd("cy.request", <<"PUT", "/users/">> \o createdUserId))
    /\ \E ok \in BOOLEAN : EndTest(ok)
    /\ UNCHANGED <<suite, plan, current, createdUserId, authToken, loginData,
                   mockData, writer, fixtureLoads, routes, served, browser>>
    /\ RunFrame

\* it('updates a user (PUT)'): const id = 2
AH_updatesUser ==
    /\ suite = "ApiHooksDemo" /\ phase = "test"
    /\ current = "updates a user (PUT)"
    /\ cmds' = Append(cmds, Cmd("cy.request", <<"PUT", "/users/", "2">>))
    /\ \E ok \in BOOLEAN : EndTest(ok)
    /\ UNCHANGED <<suite, plan, current, createdUserId, authToken, loginData,
                   mockData, writer, fixtureLoads, reads, routes, served, browser>>
    /\ RunFrame

----------------------------------------------------------------------------
(* A spec file whose tests call the custom commands of the command         *)
(* library, src/unnamed/part_001                                           *)

\* the token the login endpoint returns
Tokens == {"QpwL5tke4Pnpja7X4"}

\* cy.apiLogin(email, password), part_001:536-555
CM_apiLogin ==
    /\ suite = "Commands" /\ phase = "test"
    /\ current = "calls cy.apiLogin"
    /\ \E status \in {200, 400}, token \in {<<>>} \cup {<<t>> : t \in Tokens} :
         IF status = 200 /\ token # <<>>
         THEN /\ authToken' = token
              /\ writer' = [writer EXCEPT !["authToken"] = current]
              /\ cmds' = cmds \o
                   << Cmd("cy.log", <<"API Login:", "email">>),
                      Cmd("cy.request", <<"POST", "/api/login">>),
                      Cmd("cy.log", <<"Login successful - Token stored">>),
                      Cmd("cy.wrap", <<"success", "true">>) >>
         ELSE /\ UNCHANGED <<authToken, writer>>
              /\ cmds' = cmds \o
                   << Cmd("cy.log", <<"API Login:", "email">>),
                      Cmd("cy.request", <<"POST", "/api/login">>),
                      Cmd("cy.log", <<"Login failed - Status">>),
                      Cmd("cy.wrap", <<"success", "false">>) >>
    /\ EndTest(TRUE)
    /\ UNCHANGED <<suite, plan, current, createdUserId, loginData, mockData,
                   fixtureLoads, reads, routes, served, browser>>
    /\ RunFrame

\* cy.apiAuthRequest(options), part_001:566-582, and the cy.apiRequest it
\* ends in, part_001:478-518
CM_apiAuthRequest ==
    /\ suite = "Commands" /\ phase = "test"
    /\ current = "calls cy.apiAuthRequest"
    /\ reads' = reads \cup {Read("authToken")}
    /\ cmds' = cmds
         \o (IF authToken = <<>>
             THEN << Cmd("cy.log", <<"No auth token found - Proceeding without authentication">>) >>
             ELSE <<>>)
         \o << Cmd("cy.log", <<"API", "GET", "/api/protected">>),
               Cmd("cy.request",
                   <<"GET", "/api/protected">> \o
                   (IF authToken = <<>> THEN <<>>
                    ELSE <<"Authorization: Bearer">> \o authToken)),
               Cmd("cy.log", <<"Response Status">>),
               Cmd("cy.log", <<"Response Time">>),
               Cmd("cy.wrap", <<"response">>) >>
    /\ EndTest(TRUE)
    /\ UNCHANGED <<suite, plan, current, createdUserId, authToken, loginData,
                   mockData, writer, fixtureLoads, routes, served, browser>>
    /\ RunFrame

\* cy.interceptAndMock(method, url, response, alias), part_001:878-898:
\* response is a fixture name or an object.  The test then opens the
\* application, as the tests of mockingandenvvariables.cy.js do.
CM_interceptAndMock ==
    /\ suite = "Commands" /\ phase = "test"
    /\ current = "calls cy.interceptAndMock"
    /\ \E isFixtureName \in BOOLEAN :
         cmds' = cmds
           \o << Cmd("cy.log", <<"Intercepting", "GET", "/api/users">>) >>
           \o (IF isFixtureName
               THEN << Cmd("cy.fixture", <<"mockApiResponses">>) >> ELSE <<>>)
           \o << Cmd("cy.intercept", <<"GET", "/api/users">>),
                 Cmd("as", <<"getUsers">>),
                 Cmd("cy.visit", <<"/">>) >>
    /\ routes' = Append(routes, [owner |-> current, method |-> "GET",
                                 url |-> "/api/users", alias |-> "getUsers"])
    /\ browser' = [browser EXCEPT !.page = TRUE]
    /\ EndTest(TRUE)
    /\ UNCHANGED <<suite, plan, current, createdUserId, authToken, loginData,
                   mockData, writer, fixtureLoads, reads, served>>
    /\ RunFrame

----------------------------------------------------------------------------
(* describe('Login Module - Cypress Actions Training'):                    *)
(* src/cypress/e2e/Day2/Login.cy.js                                        *)

\* the mutant of LG_before: the fixture is loaded but not kept
LG_beforeForgets ==
    /\ suite = "Login" /\ phase = "before"
    /\ cmds' = cmds \o
         << Cmd("cy.log", <<"BEFORE HOOK: Suite-level setup starting">>),
            Cmd("cy.fixture", <<"loginData">>),
            Cmd("cy.log", <<"BEFORE HOOK: Suite-level setup complete">>) >>
    /\ fixtureLoads' = [fixtureLoads EXCEPT !["loginData"] = @ + 1]
    /\ phase' = NextPhase(phase)
    /\ UNCHANGED <<suite, plan, current, ran, failed, createdUserId, authToken,
                   loginData, mockData, writer, reads, routes, served, browser>>
    /\ RunFrame

\* before(): cy.fixture('loginData').then((data) => { loginData = data })
\* A failing before() skips every test; after() still runs.
LG_before ==
    /\ suite = "Login" /\ phase = "before"
    /\ fixtureLoads' = [fixtureLoads EXCEPT !["loginData"] = @ + 1]
    /\ \E found \in BOOLEAN :
         IF found
         THEN /\ cmds' = cmds \o
                   << Cmd("cy.log", <<"BEFORE HOOK: Suite-level setup starting">>),
                      Cmd("cy.fixture", <<"loginData">>),
                      Cmd("cy.log", <<"Fixture data loaded successfully">>),
                      Cmd("cy.log", <<"BEFORE HOOK: Suite-level setup complete">>) >>
              /\ loginData' = <<"loginData.json">>
              /\ writer' = [writer EXCEPT !["loginData"] = Owner]
              /\ phase' = NextPhase(phase)
              /\ UNCHANGED plan
         ELSE /\ cmds' = cmds \o
                   << Cmd("cy.log", <<"BEFORE HOOK: Suite-level setup starting">>),
                      Cmd("cy.fixture", <<"loginData">>) >>
              /\ UNCHANGED <<loginData, writer>>
              /\ plan' = <<>>
              /\ phase' = "after"
    /\ UNCHANGED <<suite, current, ran, failed, createdUserId, authToken,
                   mockData, reads, routes, served, browser>>
    /\ RunFrame

\* beforeEach(): viewport, visit(loginData.baseUrl + loginData.loginPage.url),
\* url and title checks.  Reading a property of undefined throws: the hook
\* fails, the test and every later test are skipped.
LG_beforeEach ==
    /\ suite = "Login" /\ phase = "beforeEach"
    /\ reads' = reads \cup {Read("loginData")}
    /\ IF loginData = <<>>
       THEN /\ cmds' = cmds \o
                 << Cmd("cy.log", <<"BEFORE EACH: Test-level setup starting">>),
                    Cmd("cy.viewport", <<"1280", "800">>) >>
            /\ failed' = failed \cup {current}
            /\ plan' = <<>>
            /\ phase' = "afterEach"
            /\ UNCHANGED browser
       ELSE /\ cmds' = cmds \o
                 << Cmd("cy.log", <<"BEFORE EACH: Test-level setup starting">>),
                    Cmd("cy.viewport", <<"1280", "800">>),
                    Cmd("cy.visit", <<"baseUrl", "loginPage.url">>),
                    Cmd("cy.url", <<>>),
                    Cmd("should", <<"include", "loginPage.url">>),
                    Cmd("cy.title", <<>>),
                    Cmd("should", <<"include", "loginPage.title">>),
                    Cmd("cy.log", <<"BEFORE EACH: Test-level setup complete">>) >>
            /\ browser' = [browser EXCEPT !.page = TRUE]
            /\ phase' = NextPhase(phase)
            /\ UNCHANGED <<failed, plan>>
    /\ UNCHANGED <<suite, current, ran, createdUserId, authToken, loginData,
                   mockData, writer, fixtureLoads, routes, served>>
    /\ RunFrame

\* the commands of the test bodies TC001 (128-190), TC002 (195-237) and
\* TC003 (238-259); every argument comes from loginData
LoginBody(t) ==
    CASE t = "TC001" ->
          << <<"cy.log", "Starting valid login test...">>,
             <<"cy.get", "selectors.usernameInput">>, <<"should", "be.visible">>,
             <<"type", "validUser.username">>, <<"should", "have.value">>,
             <<"cy.get", "selectors.passwordInput">>, <<"should", "be.visible">>,
             <<"type", "validUser.password">>, <<"should", "have.value">>,
             <<"cy.get", "selectors.submitButton">>, <<"should", "be.visible">>,
             <<"should", "be.enabled">>, <<"click", "">>,
             <<"cy.contains", "validUser.expectedSuccessText">>,
             <<"should", "be.visible">>,
             <<"cy.screenshot", "TC001-successful-login">>,
             <<"cy.log", "Valid login test completed successfully!">> >>
      [] t = "TC002" ->
          << <<"cy.log", "Starting invalid username test...">>,
             <<"cy.get", "selectors.usernameInput">>, <<"clear", "">>,
             <<"type", "invalidUser.username">>,
             <<"cy.get", "selectors.passwordInput">>, <<"clear", "">>,
             <<"type", "invalidUser.password">>,
             <<"cy.get", "selectors.submitButton">>, <<"click", "">>,
             <<"cy.get", "selectors.errorMessage">>, <<"should", "be.visible">>,
             <<"and", "contain invalidUser.expectedErrorText">>,
             <<"cy.get", "selectors.errorMessage">>, <<"should", "be.visible">>,
             <<"and", "have.css color">>,
             <<"cy.screenshot", "TC002-invalid-username-error">>,
             <<"cy.log", "Invalid username test completed!">> >>
      [] t = "TC003" ->
          << <<"cy.log", "Starting invalid password test...">>,
             <<"cy.get", "selectors.usernameInput">>,
             <<"type", "invalidPassword.username">>,
             <<"cy.get", "selectors.passwordInput">>,
             <<"type", "invalidPassword.password">>,
             <<"cy.get", "selectors.submitButton">>, <<"click", "">>,
             <<"cy.get", "selectors.errorMessage">>, <<"should", "be.visible">>,
             <<"should", "contain invalidPassword.expectedErrorText">>,
             <<"cy.screenshot", "TC003-invalid-password-error">>,
             <<"cy.log", "Invalid password test completed!">> >>

\* it('TC001 ...'), it('TC002 ...'), it('TC003 ...'): the body reads
\* loginData; submitting the form may leave cookies and localStorage entries
LG_test ==
    /\ suite = "Login" /\ phase = "test"
    /\ reads' = reads \cup {Read("loginData")}
    /\ cmds' = cmds \o [i \in 1..Len(LoginBody(current)) |->
                          Cmd(LoginBody(current)[i][1], <<LoginBody(current)[i][2]>>)]
    /\ \E c \in BOOLEAN, l \in BOOLEAN :
         browser' = [browser EXCEPT !.cookies = @ \/ c, !.localStorage = @ \/ l]
    /\ \E ok \in BOOLEAN : EndTest(ok)
    /\ UNCHANGED <<suite, plan, current, createdUserId, authToken, loginData,
                   mockData, writer, fixtureLoads, routes, served>>
    /\ RunFrame

\* the afterEach() that logs and clears nothing
LG_afterEachKeeps ==
    /\ suite = "Login" /\ phase = "afterEach"
    /\ cmds' = cmds \o
         << Cmd("cy.log", <<"AFTER EACH: Test-level cleanup starting">>),
            Cmd("cy.log", <<"AFTER EACH: Test-level cleanup complete">>) >>
    /\ phase' = NextPhase(phase)
    /\ UNCHANGED <<suite, plan, current, ran, failed, createdUserId, authToken,
                   loginData, mockData, writer, fixtureLoads, reads, routes,
                   served, browser>>
    /\ RunFrame

\* afterEach(): cy.clearCookies({ log: false }), cy.clearLocalStorage({ log: false })
LG_afterEach ==
    /\ suite = "Login" /\ phase = "afterEach"
    /\ cmds' = cmds \o
         << Cmd("cy.log", <<"AFTER EACH: Test-level cleanup starting">>),
            Cmd("cy.clearCookies", <<"log: false">>),
            Cmd("cy.clearLocalStorage", <<"log: false">>),
            Cmd("cy.log", <<"AFTER EACH: Test-level cleanup complete">>) >>
    /\ browser' = [browser EXCEPT !.cookies = FALSE, !.localStorage = FALSE]
    /\ phase' = NextPhase(phase)
    /\ UNCHANGED <<suite, plan, current, ran, failed, createdUserId, authToken,
                   loginData, mockData, writer, fixtureLoads, reads, routes,
                   served>>
    /\ RunFrame

\* after()
LG_after ==
    /\ suite = "Login" /\ phase = "after"
    /\ cmds' = cmds \o
         << Cmd("cy.log", <<"AFTER HOOK: Suite-level teardown starting">>),
            Cmd("cy.log", <<"All login tests completed!">>),
            Cmd("cy.log", <<"AFTER HOOK: Suite-level teardown complete">>) >>
    /\ phase' = NextPhase(phase)
    /\ UNCHANGED <<suite, plan, current, ran, failed, createdUserId, authToken,
                   loginData, mockData, writer, fixtureLoads, reads, routes,
                   served, browser>>
    /\ RunFrame

----------------------------------------------------------------------------
(* describe('Mocking Network Requests with cy.intercept()'):               *)
(* src/cypress/e2e/Day3/mockingandenvvariables.cy.js                       *)

\* before(): cy.fixture('mockData').then((data) => { mockData = data })
MK_before ==
    /\ suite = "Mocking" /\ phase = "before"
    /\ cmds' = Append(cmds, Cmd("cy.fixture", <<"mockData">>))
    /\ fixtureLoads' = [fixtureLoads EXCEPT !["mockData"] = @ + 1]
    /\ mockData' = <<"mockData.json">>
    /\ writer' = [writer EXCEPT !["mockData"] = Owner]
    /\ phase' = NextPhase(phase)
    /\ UNCHANGED <<suite, plan, current, ran, failed, createdUserId, authToken,
                   loginData, reads, routes, served, browser>>
    /\ RunFrame

\* it('intercepts and mocks a GET request with inline data'), lines 49-65
MK_inlineMock ==
    /\ suite = "Mocking" /\ phase = "test"
    /\ current = "intercepts and mocks a GET request with inline data"
    /\ cmds' = cmds \o
         << Cmd("cy.intercept", <<"GET", "/api/users">>),
            Cmd("as", <<"getUsers">>),
            Cmd("cy.visit", <<"https://example.cypress.io/">>),
            Cmd("cy.log", <<"Intercept is active for GET /api/users">>) >>
    /\ routes' = Append(routes, [owner |-> current, method |-> "GET",
                                 url |-> "/api/users", alias |-> "getUsers"])
    /\ browser' = [browser EXCEPT !.page = TRUE]
    /\ EndTest(TRUE)
    /\ UNCHANGED <<suite, plan, current, createdUserId, authToken, loginData,
                   mockData, writer, fixtureLoads, reads, served>>
    /\ RunFrame

\* it('mocks a successful response using fixture data'), lines 100-111
MK_fixtureMock ==
    /\ suite = "Mocking" /\ phase = "test"
    /\ current = "mocks a successful response using fixture data"
    /\ reads' = reads \cup {Read("mockData")}
    /\ IF mockData = <<>>
       THEN /\ EndTest(FALSE)
            /\ UNCHANGED <<cmds, routes, browser>>
       ELSE /\ cmds' = cmds \o
                 << Cmd("cy.intercept", <<"GET", "/api/users">>),
                    Cmd("as", <<"getUsersSuccess">>),
                    Cmd("cy.visit", <<"https://example.cypress.io/">>),
                    Cmd("cy.log", <<"Mock returns: n users">>) >>
            /\ routes' = Append(routes, [owner |-> current, method |-> "GET",
                                         url |-> "/api/users",
                                         alias |-> "getUsersSuccess"])
            /\ browser' = [browser EXCEPT !.page = TRUE]
            /\ EndTest(TRUE)
    /\ UNCHANGED <<suite, plan, current, createdUserId, authToken, loginData,
                   mockData, writer, fixtureLoads, served>>
    /\ RunFrame

\* how many requests the loaded page makes during a run
MaxRequests == 2

\* the urls the loaded page may request
Urls == {"/api/users", "/api/posts"}

\* the intercept that answers a GET of url: the one registered last among
\* those that match; 0 if none matches and the request goes to the network
Matching(url) ==
    LET hits == {i \in 1..Len(routes) :
                    routes[i].method = "GET" /\ routes[i].url = url}
    IN  IF hits = {} THEN 0 ELSE CHOOSE i \in hits : \A j \in hits : j <= i

\* the page under test makes a GET request; it counts as a request of the
\* test in progress (after() runs as part of the last test)
AppRequest ==
    /\ phase \in {"start", "beforeEach", "test", "afterEach", "after"}
    /\ browser.page
    /\ Len(served) < MaxRequests
    /\ \E url \in Urls :
         served' = Append(served,
            [by |-> current, url |-> url,
             owner |-> IF Matching(url) = 0 THEN "network"
                       ELSE routes[Matching(url)].owner])
    /\ UNCHANGED <<suite, plan, phase, current, ran, failed, cmds,
                   createdUserId, authToken, loginData, mockData, writer,
                   fixtureLoads, reads, routes, browser>>
    /\ RunFrame

----------------------------------------------------------------------------
(* cy.login (src/cypress/support/commands.js:58-93) and the LoginPage page *)
(* object (src/cypress/pages/LoginPage.js).  Calling a cy command enqueues *)
(* it; the queue runs in order; a .then callback runs when its turn comes  *)
(* and enqueues the commands it calls.  The command log gets an entry,     *)
(* command and argument, for every command run without { log: false }.     *)
(* A JavaScript value that may be undefined is <<>> or <<value>>.          *)

Runs == {1, 2}

\* property names every object inherits from Object.prototype
ObjectPrototype == {"constructor", "toString"}

\* the user types of the fixture file an api reads: customCommandData.json
\* for cy.login, loginCredentials.json for the page object
KeysOf(api) ==
    IF api = "cy.login" THEN {"admin", "standard"}
    ELSE {"validUser", "invalidUser"}

\* userType = 'standard' (commands.js:58), userType = 'validUser'
\* (LoginPage.js:142)
DefaultType(api) == IF api = "cy.login" THEN "standard" ELSE "validUser"

UserType == IF lcall.userType = <<>> THEN DefaultType(lcall.api)
            ELSE lcall.userType[1]

\* data.users[userType], credentials[userType]: an own property, else a
\* property inherited from Object.prototype, else undefined
Lookup(r, k) ==
    IF k \in lkeys
    THEN [kind |-> "object", username |-> <<"student">>,
          password |-> <<lpass[r]>>]
    ELSE IF k \in ObjectPrototype
    THEN [kind |-> "function", username |-> <<>>, password |-> <<>>]
    ELSE [kind |-> "undefined", username |-> <<>>, password |-> <<>>]

\* if (!user)
Falsy(user) == user.kind = "undefined"

Command(c, a) == [cmd |-> c, arg |-> a, log |-> TRUE]
Unlogged(c, a) == [cmd |-> c, arg |-> a, log |-> FALSE]

Text(v) == IF v = <<>> THEN <<"undefined">> ELSE v

\* the callback that clicks the submit button before asserting on it
LoginCommandsClickUnchecked(user) ==
    << Command("log", <<"Logging in as:", UserType>> \o Text(user.username)),
       Command("visit", <<"loginPage.url">>),
       Command("get", <<"selectors.usernameInput">>),
       Command("should", <<"be.visible">>),
       Command("clear", <<>>),
       Command("type", user.username),
       Command("get", <<"selectors.passwordInput">>),
       Command("should", <<"be.visible">>),
       Command("clear", <<>>),
       Unlogged("type", user.password),
       Command("get", <<"selectors.submitButton">>),
       Command("click", <<>>),
       Command("should", <<"be.visible">>),
       Command("and", <<"not.be.disabled">>),
       Command("wrap", user.username \o user.password),
       Command("as", <<"currentUser">>) >>

\* the commands the callback of cy.login enqueues, commands.js:69-91
LoginCommands(user) ==
    << Command("log", <<"Logging in as:", UserType>> \o Text(user.username)),
       Command("visit", <<"loginPage.url">>),
       Command("get", <<"selectors.usernameInput">>),
       Command("should", <<"be.visible">>),
       Command("clear", <<>>),
       Command("type", user.username),
       Command("get", <<"selectors.passwordInput">>),
       Command("should", <<"be.visible">>),
       Command("clear", <<>>),
       Unlogged("type", user.password),
       Command("get", <<"selectors.submitButton">>),
       Command("should", <<"be.visible">>),
       Command("and", <<"not.be.disabled">>),
       Command("click", <<>>),
       Command("wrap", user.username \o user.password),
       Command("as", <<"currentUser">>) >>

\* LoginPage.enterUsername, LoginPage.js:79-82
enterUsername(username) ==
    << Command("get", <<"usernameInput">>), Command("first", <<>>),
       Command("clear", <<>>), Command("type", username) >>

\* LoginPage.enterPassword, LoginPage.js:85-88
enterPassword(password) ==
    << Command("get", <<"passwordInput">>), Command("first", <<>>),
       Command("clear", <<>>), Unlogged("type", password) >>

\* LoginPage.clickLoginButton, LoginPage.js:91-94
clickLoginButton ==
    << Command("get", <<"loginButton">>), Command("first", <<>>),
       Command("click", <<>>) >>

\* the login that clicks before the password is entered
loginClickFirst(username, password) ==
    enterUsername(username) \o clickLoginButton \o enterPassword(password)

\* LoginPage.login, LoginPage.js:125-130
login(username, password) ==
    enterUsername(username) \o enterPassword(password) \o clickLoginButton

Enqueue(r, commands) ==
    /\ lqueue' = [lqueue EXCEPT ![r] = @ \o commands]
    /\ lissued' = [lissued EXCEPT ![r] = @ \o commands]

\* cy.login(userType): cy.fixture('customCommandData').then(...)
CyLogin(r) ==
    /\ lcall.api = "cy.login" /\ lpc[r] = "start"
    /\ Enqueue(r, << Command("fixture", <<"customCommandData">>),
                     Command("then", <<>>) >>)
    /\ lpc' = [lpc EXCEPT ![r] = "then"]
    /\ UNCHANGED <<lcall, lkeys, lpass, lfail, llog, lalias, lerr>>
    /\ LoginFrame

\* the callback of cy.login, commands.js:60-92
CyLoginThen(r) ==
    /\ lcall.api = "cy.login" /\ lpc[r] = "then"
    /\ lqueue[r] # <<>> /\ Head(lqueue[r]).cmd = "then"
    /\ LET user == Lookup(r, UserType) IN
         IF Falsy(user)
         THEN /\ lerr' = [lerr EXCEPT ![r] = <<"User type not found in fixture data">>]
              /\ lqueue' = [lqueue EXCEPT ![r] = <<>>]
              /\ lpc' = [lpc EXCEPT ![r] = "done"]
              /\ UNCHANGED lissued
         ELSE /\ lqueue' = [lqueue EXCEPT ![r] = Tail(@) \o LoginCommands(user)]
              /\ lissued' = [lissued EXCEPT ![r] = @ \o LoginCommands(user)]
              /\ lpc' = [lpc EXCEPT ![r] = "run"]
              /\ UNCHANGED lerr
    /\ UNCHANGED <<lcall, lkeys, lpass, lfail, llog, lalias>>
    /\ LoginFrame

\* LoginPage.loginWithFixture(userType), LoginPage.js:142-151
LoginWithFixture(r) ==
    /\ lcall.api = "LoginPage.loginWithFixture" /\ lpc[r] = "start"
    /\ Enqueue(r, << Command("fixture", <<"loginCredentials">>),
                     Command("then", <<>>) >>)
    /\ lpc' = [lpc EXCEPT ![r] = "then"]
    /\ UNCHANGED <<lcall, lkeys, lpass, lfail, llog, lalias, lerr>>
    /\ LoginFrame

\* the callback of loginWithFixture, LoginPage.js:143-149
LoginWithFixtureThen(r) ==
    /\ lcall.api = "LoginPage.loginWithFixture" /\ lpc[r] = "then"
    /\ lqueue[r] # <<>> /\ Head(lqueue[r]).cmd = "then"
    /\ LET user == Lookup(r, UserType) IN
         IF Falsy(user)
         THEN /\ lerr' = [lerr EXCEPT ![r] =
                           <<"User type not found in loginCredentials fixture">>]
              /\ lqueue' = [lqueue EXCEPT ![r] = <<>>]
              /\ lpc' = [lpc EXCEPT ![r] = "done"]
              /\ UNCHANGED lissued
         ELSE /\ lqueue' = [lqueue EXCEPT ![r] =
                             Tail(@) \o login(user.username, user.password)]
              /\ lissued' = [lissued EXCEPT ![r] =
                             @ \o login(user.username, user.password)]
              /\ lpc' = [lpc EXCEPT ![r] = "run"]
              /\ UNCHANGED lerr
    /\ UNCHANGED <<lcall, lkeys, lpass, lfail, llog, lalias>>
    /\ LoginFrame

\* LoginPage.login(username, password) with the credentials of a user of
\* the fixture, as the tests that load loginCredentials themselves call it
PageLogin(r) ==
    /\ lcall.api = "LoginPage.login" /\ lpc[r] = "start"
    /\ LET user == Lookup(r, UserType) IN
         Enqueue(r, login(user.username, user.password))
    /\ lpc' = [lpc EXCEPT ![r] = "run"]
    /\ UNCHANGED <<lcall, lkeys, lpass, lfail, llog, lalias, lerr>>
    /\ LoginFrame

\* the queue runs its next command (not a callback of this model).  The
\* command may fail: cy.type rejects a value that is no string or number,
\* and any command can time out on the page.
RunCommand(r) ==
    /\ lpc[r] \in {"then", "run"}
    /\ lqueue[r] # <<>> /\ Head(lqueue[r]).cmd # "then"
    /\ LET c == Head(lqueue[r])
           n == Len(lissued[r]) - Len(lqueue[r]) + 1
       IN
         IF c.cmd = "type" /\ c.arg = <<>>
         THEN /\ lerr' = [lerr EXCEPT ![r] =
                           <<"cy.type() can only accept a string or number">>]
              /\ lqueue' = [lqueue EXCEPT ![r] = <<>>]
              /\ lpc' = [lpc EXCEPT ![r] = "done"]
              /\ UNCHANGED <<llog, lalias>>
         ELSE IF n = lfail
         THEN /\ lerr' = [lerr EXCEPT ![r] = <<"timed out">>]
              /\ lqueue' = [lqueue EXCEPT ![r] = <<>>]
              /\ lpc' = [lpc EXCEPT ![r] = "done"]
              /\ llog' = [llog EXCEPT ![r] =
                            IF c.log THEN Append(@, [cmd |-> c.cmd, arg |-> c.arg])
                            ELSE @]
              /\ UNCHANGED lalias
         ELSE /\ llog' = [llog EXCEPT ![r] =
                            IF c.log THEN Append(@, [cmd |-> c.cmd, arg |-> c.arg])
                            ELSE @]
              /\ lalias' = [lalias EXCEPT ![r] =
                            IF c.cmd = "as" THEN @ \cup {c.arg[1]} ELSE @]
              /\ lqueue' = [lqueue EXCEPT ![r] = Tail(@)]
              /\ lpc' = [lpc EXCEPT ![r] =
                            IF Tail(lqueue[r]) = <<>> THEN "done" ELSE @]
              /\ UNCHANGED lerr
    /\ UNCHANGED <<lcall, lkeys, lpass, lfail, lissued>>
    /\ LoginFrame

----------------------------------------------------------------------------
(* cy.typeAndVerify, src/cypress/support/commands.js:219-226: a child      *)
(* command; its callback enqueues wrap(subject).clear().type(text)         *)
(* .should('have.value', text), cy.log and cy.wrap(subject), which then    *)
(* run in that order.  A text is a sequence of keys.                       *)

\* the characters and the special key sequences a text is made of
Chars == {"a", "b"}
SpecialKeys == {"{backspace}"}

\* the longest text typed and the longest prior content of a field
MaxText == 2

TextsOver(keys) == UNION {[1..n -> keys] : n \in 0..MaxText}

\* the fields TC9 calls the command on
Fields == {".action-email", ".action-focus"}

\* what .type(text) makes of the value of a field: a character is added at
\* the end, {backspace} deletes the last character
RECURSIVE TypeKeys(_, _)
TypeKeys(value, text) ==
    IF text = <<>> THEN value
    ELSE LET k == Head(text)
             v == IF k \notin SpecialKeys THEN Append(value, k)
                  ELSE IF value = <<>> THEN value
                  ELSE SubSeq(value, 1, Len(value) - 1)
         IN  TypeKeys(v, Tail(text))

TV_Fail(msg) ==
    /\ terr' = <<msg>>
    /\ tpc' = "done"

\* the clear that clears nothing
TV_clearKeeps ==
    /\ tpc = "clear"
    /\ IF tactionable
       THEN /\ tpc' = "type"
            /\ UNCHANGED <<tvalue, terr>>
       ELSE /\ TV_Fail("cy.clear() failed because this element is disabled")
            /\ UNCHANGED tvalue
    /\ UNCHANGED <<tsubject, ttext, tprior, tactionable, tlog, tyield>>
    /\ TypeFrame

\* cy.wrap(subject).clear()
TV_clear ==
    /\ tpc = "clear"
    /\ IF tactionable
       THEN /\ tvalue' = <<>>
            /\ tpc' = "type"
            /\ UNCHANGED terr
       ELSE /\ TV_Fail("cy.clear() failed because this element is disabled")
            /\ UNCHANGED tvalue
    /\ UNCHANGED <<tsubject, ttext, tprior, tactionable, tlog, tyield>>
    /\ TypeFrame

\* .type(text); cy.type rejects the empty string
TV_type ==
    /\ tpc = "type"
    /\ IF ttext = <<>>
       THEN /\ TV_Fail("cy.type() cannot accept an empty string")
            /\ UNCHANGED tvalue
       ELSE /\ tvalue' = TypeKeys(tvalue, ttext)
            /\ tpc' = "should"
            /\ UNCHANGED terr
    /\ UNCHANGED <<tsubject, ttext, tprior, tactionable, tlog, tyield>>
    /\ TypeFrame

\* .should('have.value', text)
TV_should ==
    /\ tpc = "should"
    /\ IF tvalue = ttext
       THEN tpc' = "log" /\ UNCHANGED terr
       ELSE TV_Fail("expected element to have value")
    /\ UNCHANGED <<tsubject, ttext, tprior, tactionable, tvalue, tlog, tyield>>
    /\ TypeFrame

\* cy.log(`Typed and verified: "${text}"`)
TV_log ==
    /\ tpc = "log"
    /\ tlog' = Append(tlog, <<"Typed and verified:">> \o ttext)
    /\ tpc' = "wrap"
    /\ UNCHANGED <<tsubject, ttext, tprior, tactionable, tvalue, terr, tyield>>
    /\ TypeFrame

\* return cy.wrap(subject)
TV_wrap ==
    /\ tpc = "wrap"
    /\ tyield' = <<tsubject>>
    /\ tpc' = "done"
    /\ UNCHANGED <<tsubject, ttext, tprior, tactionable, tvalue, terr, tlog>>
    /\ TypeFrame

----------------------------------------------------------------------------
(* The LoginPage page object, src/cypress/pages/LoginPage.js: a test body  *)
(* calls methods on the exported instance, each on what the call before    *)
(* returned.  A call enqueues commands; none runs before the body ends.    *)

\* the locators, LoginPage.js:25-55: cy.get(...), for three of them .first()
Locator(name) ==
    IF name \in {"usernameInput", "passwordInput", "loginButton"}
    THEN << Command("get", <<name>>), Command("first", <<>>) >>
    ELSE << Command("get", <<name>>) >>

\* the methods of the class, LoginPage.js:62-232
Methods ==
    {"visit", "visitWithBaseUrl", "enterUsername", "enterPassword",
     "clickLoginButton", "checkRememberMe", "uncheckRememberMe",
     "clickForgotPassword", "logout", "login", "loginWithRememberMe",
     "loginWithFixture", "loginWithEnv", "verifyLoginSuccess",
     "verifyRedirectTo", "verifyErrorMessage", "verifyErrorDisplayed",
     "verifyOnLoginPage", "verifyLogoutSuccess", "clearForm",
     "takeScreenshot", "waitForPageLoad"}

\* LoginPage.loginWithRememberMe, LoginPage.js:133-139
loginWithRememberMe(username, password) ==
    enterUsername(username) \o enterPassword(password)
       \o Locator("rememberMeCheckbox") \o << Command("check", <<>>) >>
       \o clickLoginButton

\* the commands a method enqueues when called
MethodCommands(m) ==
    CASE m = "visit" -> << Command("visit", <<"/login">>) >>
      [] m = "visitWithBaseUrl" -> << Command("visit", <<"baseUrl", "/login">>) >>
      [] m = "enterUsername" -> enterUsername(<<puser>>)
      [] m = "enterPassword" -> enterPassword(<<ppass>>)
      [] m = "clickLoginButton" -> clickLoginButton
      [] m = "checkRememberMe" ->
            Locator("rememberMeCheckbox") \o << Command("check", <<>>) >>
      [] m = "uncheckRememberMe" ->
            Locator("rememberMeCheckbox") \o << Command("uncheck", <<>>) >>
      [] m = "clickForgotPassword" ->
            Locator("forgotPasswordLink") \o << Command("click", <<>>) >>
      [] m = "logout" -> Locator("logoutButton") \o << Command("click", <<>>) >>
      [] m = "login" -> login(<<puser>>, <<ppass>>)
      [] m = "loginWithRememberMe" -> loginWithRememberMe(<<puser>>, <<ppass>>)
      [] m = "loginWithFixture" ->
            << Command("fixture", <<"loginCredentials">>), Command("then", <<>>) >>
      [] m = "loginWithEnv" -> login(<<"LOGIN_USERNAME">>, <<"LOGIN_PASSWORD">>)
      [] m = "verifyLoginSuccess" ->
            << Command("url", <<>>), Command("should", <<"not.include", "/login">>) >>
      [] m = "verifyRedirectTo" ->
            << Command("url", <<>>), Command("should", <<"include", "expectedUrl">>) >>
      [] m = "verifyErrorMessage" ->
            Locator("errorMessage")
               \o << Command("should", <<"be.visible">>),
                     Command("and", <<"contain", "expectedMessage">>) >>
      [] m = "verifyErrorDisplayed" ->
            Locator("errorMessage") \o << Command("should", <<"be.visible">>) >>
      [] m = "verifyOnLoginPage" ->
            << Command("url", <<>>), Command("should", <<"include", "/login">>) >>
               \o Locator("usernameInput") \o << Command("should", <<"be.visible">>) >>
               \o Locator("passwordInput") \o << Command("should", <<"be.visible">>) >>
      [] m = "verifyLogoutSuccess" ->
            << Command("url", <<>>), Command("should", <<"include", "/login">>) >>
      [] m = "clearForm" ->
            Locator("usernameInput") \o << Command("clear", <<>>) >>
               \o Locator("passwordInput") \o << Command("clear", <<>>) >>
      [] m = "takeScreenshot" -> << Command("screenshot", <<"name">>) >>
      [] m = "waitForPageLoad" ->
            Locator("usernameInput") \o << Command("should", <<"be.visible">>) >>
               \o Locator("loginButton") \o << Command("should", <<"be.visible">>) >>

\* loginWithEnv throws when a variable is missing, LoginPage.js:158-160;
\* every other method ends in "return this"
Throws(m) == m = "loginWithEnv" /\ ~penv

\* the longest chain of calls a test body makes
MaxChain == 3

\* the test body calls method m on what the last call returned
PageCall(m) ==
    /\ pret = "LoginPage" /\ perr = <<>>
    /\ Len(pcalls) < MaxChain
    /\ pcalls' = Append(pcalls, m)
    /\ IF Throws(m)
       THEN /\ perr' = <<"LOGIN_USERNAME and LOGIN_PASSWORD environment variables must be set">>
            /\ pret' = "none"
            /\ UNCHANGED pqueue
       ELSE /\ pqueue' = pqueue \o MethodCommands(m)
            /\ pret' = "LoginPage"
            /\ UNCHANGED perr
    /\ UNCHANGED <<puser, ppass, penv>>
    /\ PageFrame

----------------------------------------------------------------------------
(* cy.getEnvVariable (src/unnamed/part_001:991-999) and cy.checkFeatureFlag *)
(* (part_001:1020-1025).  A JavaScript value is a record of its typeof t   *)
(* and its printed form v; null has t "null".                              *)

Undefined == [t |-> "undefined", v |-> "undefined"]
Null == [t |-> "null", v |-> "null"]
Str(s) == [t |-> "string", v |-> s]
Bool(b) == [t |-> "boolean", v |-> IF b THEN "true" ELSE "false"]
Fn(name) == [t |-> "function", v |-> name]

\* a parameter with a default: (varName, defaultValue = null)
DefaultNull(arg) == IF arg = Undefined THEN Null ELSE arg

\* getEnvVariable that never tests the default for null
getEnvVariableAnyDefault(value, defaultValue) ==
    IF value = Undefined
    THEN [yield |-> defaultValue, usedDefault |-> TRUE]
    ELSE [yield |-> value, usedDefault |-> FALSE]

\* what getEnvVariable yields for Cypress.env(varName) = value
getEnvVariable(value, defaultValue) ==
    IF value = Undefined /\ defaultValue # Null
    THEN [yield |-> defaultValue, usedDefault |-> TRUE]
    ELSE [yield |-> value, usedDefault |-> FALSE]

\* cy.getEnvVariable(varName, defaultValue)
GetEnvVariable ==
    /\ ecmd = "getEnvVariable" /\ epc = "call"
    /\ LET r == getEnvVariable(eenv[ename], DefaultNull(edefault)) IN
         /\ elog' = Append(elog,
                 IF r.usedDefault
                 THEN <<"Environment variable", ename, "not set, using default:",
                        r.yield.v>>
                 ELSE <<"Environment variable", ename, r.yield.v>>)
         /\ eyield' = r.yield
    /\ epc' = "done"
    /\ UNCHANGED <<ecmd, ename, edefault, eenv, eflagsKind, eflags>>
    /\ CyEnvFrame

\* featureFlags[flagName] with featureFlags = Cypress.env('featureFlags') || {}
FlagValue(flagName) ==
    IF eflagsKind = "object" /\ flagName \in DOMAIN eflags
          /\ eflags[flagName] # Undefined
    THEN eflags[flagName]
    ELSE IF flagName \in ObjectPrototype THEN Fn(flagName)
    ELSE Undefined

\* JavaScript truth of a value of this model
TruthyValue(x) == x \notin {Undefined, Null, Bool(FALSE), Str("")}

\* the flag test by truthiness
isEnabledTruthy(flagName) == TruthyValue(FlagValue(flagName))

\* featureFlags[flagName] === true
isEnabled(flagName) == FlagValue(flagName) = Bool(TRUE)

\* cy.checkFeatureFlag(flagName)
CheckFeatureFlag ==
    /\ ecmd = "checkFeatureFlag" /\ epc = "call"
    /\ elog' = Append(elog, <<"Feature flag", ename, "is",
                              IF isEnabled(ename) THEN "enabled" ELSE "disabled">>)
    /\ eyield' = Bool(isEnabled(ename))
    /\ epc' = "done"
    /\ UNCHANGED <<ecmd, ename, edefault, eenv, eflagsKind, eflags>>
    /\ CyEnvFrame

----------------------------------------------------------------------------
(* cy.apiRequest (src/unnamed/part_001:478-518), cy.apiAuthRequest         *)
(* (566-582) and the CRUD helpers (659-710).  An option that may be left   *)
(* out is <<>> or <<value>>; headers and query parameters are sets of      *)
(* names.                                                                  *)

Options(method, url, body, headers, qs, failOnStatusCode) ==
    [method |-> method, url |-> url, body |-> body, headers |-> headers,
     qs |-> qs, failOnStatusCode |-> failOnStatusCode]

\* apiRequest with failOnStatusCode = true as the default
apiRequestFailByDefault(options) ==
    LET method == IF options.method = <<>> THEN "GET" ELSE options.method[1]
    IN  [method |-> method,
         url |-> options.url,
         headers |-> {"Content-Type", "Accept"} \cup options.headers,
         failOnStatusCode |-> IF options.failOnStatusCode = <<>> THEN TRUE
                              ELSE options.failOnStatusCode[1],
         timeout |-> 30000,
         body |-> IF options.body # <<>> /\ method \in {"POST", "PUT", "PATCH"}
                  THEN options.body ELSE <<>>,
         qs |-> options.qs]

\* the requestConfig apiRequest builds from its options, part_001:479-508
apiRequest(options) ==
    LET method == IF options.method = <<>> THEN "GET" ELSE options.method[1]
    IN  [method |-> method,
         url |-> options.url,
         headers |-> {"Content-Type", "Accept"} \cup options.headers,
         failOnStatusCode |-> IF options.failOnStatusCode = <<>> THEN FALSE
                              ELSE options.failOnStatusCode[1],
         timeout |-> 30000,
         body |-> IF options.body # <<>> /\ method \in {"POST", "PUT", "PATCH"}
                  THEN options.body ELSE <<>>,
         qs |-> options.qs]

\* the options each helper passes to cy.apiRequest
apiCreate(url, data, headers) ==
    Options(<<"POST">>, url, data, headers, {}, <<>>)

apiRead(url, queryParams, headers) ==
    Options(<<"GET">>, url, <<>>, headers, queryParams, <<>>)

\* the update helper that sends PATCH
apiUpdatePatch(url, data, headers) ==
    Options(<<"PATCH">>, url, data, headers, {}, <<>>)

apiUpdate(url, data, headers) ==
    Options(<<"PUT">>, url, data, headers, {}, <<>>)

apiPatch(url, data, headers) ==
    Options(<<"PATCH">>, url, data, headers, {}, <<>>)

apiDelete(url, headers) ==
    Options(<<"DELETE">>, url, <<>>, headers, {}, <<>>)

\* apiAuthRequest: the caller's options, with the Authorization header
\* when a token is stored
apiAuthRequest(options) ==
    [options EXCEPT !.headers =
        (IF htoken # <<>> THEN {"Authorization"} ELSE {}) \cup @]

\* a command is called: it logs, and the requestConfig goes to cy.request
HttpCall(cmd, line, options) ==
    /\ hcmd = cmd /\ hpc = "call"
    /\ hlog' = hlog \o line
                \o << <<"API", apiRequest(options).method, options.url>> >>
    /\ hconfig' = <<apiRequest(options)>>
    /\ hpc' = "request"
    /\ UNCHANGED <<hcmd, hmethod, hurl, hbody, hqs, hheaders, hfailopt, htoken,
                   hstatus, hrequests, herr, hyield>>
    /\ HttpFrame

ApiRequest ==
    HttpCall("apiRequest", <<>>,
             Options(hmethod, hurl, hbody, hheaders, hqs, hfailopt))

ApiAuthRequest ==
    HttpCall("apiAuthRequest",
             IF htoken = <<>> THEN << <<"No auth token found">> >> ELSE <<>>,
             apiAuthRequest(Options(hmethod, hurl, hbody, hheaders, hqs,
                                    hfailopt)))

ApiCreate ==
    HttpCall("apiCreate", << <<"CREATE:", hurl>> >>,
             apiCreate(hurl, hbody, hheaders))

ApiRead ==
    HttpCall("apiRead", << <<"READ:", hurl>> >>, apiRead(hurl, hqs, hheaders))

ApiUpdate ==
    HttpCall("apiUpdate", << <<"UPDATE (PUT):", hurl>> >>,
             apiUpdate(hurl, hbody, hheaders))

ApiPatch ==
    HttpCall("apiPatch", << <<"PATCH:", hurl>> >>,
             apiPatch(hurl, hbody, hheaders))

ApiDelete ==
    HttpCall("apiDelete", << <<"DELETE:", hurl>> >>, apiDelete(hurl, hheaders))

\* cy.request fails a response on its status when failOnStatusCode is set
\* and the status is neither 2xx nor 3xx
StatusFails(config, status) ==
    config.failOnStatusCode /\ ~(status >= 200 /\ status < 400)

\* cy.request(requestConfig).then(...): the request is sent; with no answer
\* the command fails; else the response is logged and yielded
CyRequest ==
    /\ hpc = "request"
    /\ LET config == hconfig[1]
           response == [status |-> hstatus, method |-> config.method,
                        url |-> config.url]
       IN  /\ hrequests' = Append(hrequests, config)
           /\ IF hstatus = 0
              THEN /\ herr' = <<"cy.request() failed trying to load">>
                   /\ UNCHANGED <<hlog, hyield>>
              ELSE IF StatusFails(config, hstatus)
              THEN /\ herr' = <<"cy.request() failed on status code">>
                   /\ UNCHANGED <<hlog, hyield>>
              ELSE /\ hlog' = hlog \o << <<"Response Status:">>,
                                         <<"Response Time:">> >>
                   /\ hyield' = <<response>>
                   /\ UNCHANGED herr
    /\ hpc' = "done"
    /\ UNCHANGED <<hcmd, hmethod, hurl, hbody, hqs, hheaders, hfailopt, htoken,
                   hstatus, hconfig>>
    /\ HttpFrame

----------------------------------------------------------------------------
(* validateSchema (src/unnamed/part_001:604-627) and validateHeaders       *)
(* (part_001:640-650), child commands called on a response.  An object of  *)
(* the body maps each field name to its value, Undefined when the object   *)
(* has no such field.                                                      *)

Num(n) == [t |-> "number", v |-> ToString(n)]

\* typeof x
TypeOf(x) == IF x = Null THEN "object" ELSE x.t

SchemaFields == {"id", "title"}

\* Array.isArray(data) ? data[0] : data; <<>> when data[0] is undefined
ItemToValidate(body) ==
    IF body.items = <<>> THEN <<>> ELSE <<body.items[1]>>

\* the callback of validateSchema up to its first failure: the required
\* fields are checked first, then the types
validateSchema(body, requiredFields, types) ==
    LET item == ItemToValidate(body)
        typed == {f \in SchemaFields : types[f] # ""}
    IN  IF item = <<>>
        THEN IF requiredFields # {} THEN "AssertionError"
             ELSE IF typed # {} THEN "TypeError"
             ELSE "passed"
        ELSE IF \E f \in requiredFields : item[1][f] = Undefined
             THEN "AssertionError"
        ELSE IF \E f \in typed : /\ item[1][f] # Undefined
                                 /\ TypeOf(item[1][f]) # types[f]
             THEN "AssertionError"
        ELSE "passed"

Response == [body |-> vbody, headers |-> vheaders]

\* cy.wrap(response).validateSchema(schema)
ValidateSchema ==
    /\ vpc = "schema"
    /\ LET result == validateSchema(vbody, vrequired, vtypes) IN
         IF result = "passed"
         THEN /\ vlog' = vlog \o << "Validating Response Schema",
                                    "Schema validation passed" >>
              /\ vyield' = <<Response>>
              /\ vpc' = "headers"
              /\ UNCHANGED verr
         ELSE /\ vlog' = Append(vlog, "Validating Response Schema")
              /\ verr' = <<result>>
              /\ vpc' = "done"
              /\ UNCHANGED vyield
    /\ UNCHANGED <<vbody, vheaders, vrequired, vtypes, vexpected>>
    /\ SchemaFrame

\* the header names that differ only in case
LowerCase(header) == IF header = "Content-Type" THEN "content-type" ELSE header

\* .validateHeaders(expectedHeaders), called on what validateSchema yielded
ValidateHeaders ==
    /\ vpc = "headers"
    /\ LET response == vyield[1]
           actual == IF LowerCase(vexpected.header) = "content-type"
                     THEN response.headers ELSE {}
       IN  IF vexpected.value \in actual
           THEN /\ vlog' = vlog \o << "Validating Response Headers",
                                      "Header validation passed" >>
                /\ vyield' = <<response>>
                /\ UNCHANGED verr
           ELSE /\ vlog' = Append(vlog, "Validating Response Headers")
                /\ verr' = <<"AssertionError">>
                /\ vyield' = <<>>
    /\ vpc' = "done"
    /\ UNCHANGED <<vbody, vheaders, vrequired, vtypes, vexpected>>
    /\ SchemaFrame

----------------------------------------------------------------------------
(* cy.typeInTinyMce, src/unnamed/part_001:770-778: the body of the iframe  *)
(* document gets innerHTML = '<p>' + text + '</p>'.  The content of a body *)
(* is the sequence of its paragraphs, each the sequence of its characters. *)

\* markup a text may hold: the end of a paragraph and the start of the
\* next, and the entity for an ampersand
Markup == {"</p><p>", "&amp;"}

\* the paragraphs the HTML parser adds to paras for the rest of the text
RECURSIVE ParseInto(_, _)
ParseInto(paras, text) ==
    IF text = <<>> THEN paras
    ELSE LET k == Head(text)
             n == Len(paras)
         IN  ParseInto(IF k = "</p><p>" THEN Append(paras, <<>>)
                       ELSE [paras EXCEPT ![n] =
                               Append(@, IF k = "&amp;" THEN "&" ELSE k)],
                       Tail(text))

\* body.innerHTML = '<p>' + text + '</p>'
InnerHTML(text) == ParseInto(<< <<>> >>, text)

\* how often a test applies the command to one editor
MaxApply == 2

\* cy.typeInTinyMce(iframeSelector, text): cy.get, the callback that sets
\* innerHTML, cy.wait(100)
TypeInTinyMce ==
    /\ mcount < MaxApply /\ merr = <<>>
    /\ IF mframe
       THEN /\ mcontent' = InnerHTML(mtext)
            /\ mcount' = mcount + 1
            /\ mfirst' = IF mcount = 0 THEN <<InnerHTML(mtext)>> ELSE mfirst
            /\ UNCHANGED merr
       ELSE /\ merr' = <<"Expected to find element, but never found it">>
            /\ UNCHANGED <<mcontent, mcount, mfirst>>
    /\ UNCHANGED <<mtext, mprior, mframe>>
    /\ TinyFrame

----------------------------------------------------------------------------
(* envconfig.js (src/cypress/e2e/Day4/cicdparalllelexecexample.cy.js:      *)
(* 856-935) and its use in src/cypress.config.js:7-18                      *)

EnvConfig(name, mockEnabled, debugMode, retries, timeout) ==
    [name |-> name, baseUrl |-> "https://example.cypress.io",
     mockEnabled |-> mockEnabled, debugMode |-> debugMode,
     retries |-> retries, timeout |-> timeout]

\* const environments = { development, qa, staging, production }
EnvironmentKeys == {"development", "qa", "staging", "production"}

environments ==
    [k \in EnvironmentKeys |->
       CASE k = "development" -> EnvConfig("development", TRUE, TRUE, 0, 8000)
         [] k = "qa" -> EnvConfig("qa", FALSE, TRUE, 1, 10000)
         [] k = "staging" -> EnvConfig("staging", FALSE, FALSE, 1, 12000)
         [] k = "production" -> EnvConfig("production", FALSE, FALSE, 2, 15000)]

\* environments[currentEnv] || environments.qa
getEnvConfig(env) ==
    IF env \in EnvironmentKeys THEN environments[env] ELSE environments["qa"]

NoConfig == EnvConfig("none", FALSE, FALSE, 0, 0)
NoSettings == [baseUrl |-> "none", defaultCommandTimeout |-> 0,
               retries |-> [runMode |-> 0, openMode |-> 0]]

\* envconfig.js is loaded: currentEnv = process.env.CYPRESS_ENV || 'qa'
LoadEnvConfig ==
    /\ cpc = "envconfig"
    /\ currentEnv' = IF cenv = <<>> \/ cenv = <<"">> THEN "qa" ELSE cenv[1]
    /\ cpc' = "config"
    /\ UNCHANGED <<cenv, cmode, cfails, cconfig, csettings, cattempts, cresult>>
    /\ CfgFrame

\* cypress.config.js: envConfig = getEnvConfig(), then defineConfig
DefineConfig ==
    /\ cpc = "config"
    /\ cconfig' = getEnvConfig(currentEnv)
    /\ csettings' = [baseUrl |-> getEnvConfig(currentEnv).baseUrl,
                     defaultCommandTimeout |-> getEnvConfig(currentEnv).timeout,
                     retries |-> [runMode |-> getEnvConfig(currentEnv).retries,
                                  openMode |-> 0]]
    /\ cpc' = "test"
    /\ UNCHANGED <<cenv, cmode, cfails, currentEnv, cattempts, cresult>>
    /\ CfgFrame

\* the retries of the mode the tests run in
Retries == IF cmode = "run" THEN csettings.retries.runMode
           ELSE csettings.retries.openMode

\* one attempt of a test: a failed attempt is retried while retries are left
TestAttempt ==
    /\ cpc = "test"
    /\ cattempts' = cattempts + 1
    /\ IF cattempts >= cfails
       THEN cresult' = "passed" /\ cpc' = "done"
       ELSE IF cattempts >= Retries
       THEN cresult' = "failed" /\ cpc' = "done"
       ELSE UNCHANGED <<cresult, cpc>>
    /\ UNCHANGED <<cenv, cmode, cfails, currentEnv, cconfig, csettings>>
    /\ CfgFrame

----------------------------------------------------------------------------
(* Initial states and specifications                                       *)

Oracles == [install : BOOLEAN, cypress : BOOLEAN, jsonProduced : BOOLEAN,
            merge : BOOLEAN, marge : BOOLEAN]

\* no CI script is running
EnvIdle ==
    /\ hasLock = FALSE
    /\ preJson = FALSE
    /\ oracle = [install |-> TRUE, cypress |-> TRUE, jsonProduced |-> TRUE,
                 merge |-> TRUE, marge |-> TRUE]

DockerIdle ==
    /\ dstage = "idle" /\ dresult = "SUCCESS" /\ dtrace = <<>>
    /\ djson = FALSE /\ dhtml = FALSE

BatIdle == bstage = "idle" /\ btrace = <<>> /\ bjson = FALSE

NodeIdle ==
    /\ variant = "Jenkinsfile" /\ isUnix = TRUE
    /\ SPEC_FILE = <<"cypress/e2e/**/*.cy.js">> /\ CUSTOM_SPECS = <<>>
    /\ nstage = "idle" /\ nresult = "SUCCESS" /\ ntrace = <<>>
    /\ nstarted = <<>> /\ nresults = <<>> /\ cliSpec = <<>>

SharedVars == {"createdUserId", "authToken", "loginData", "mockData"}

RunIdle ==
    /\ suite = "none" /\ plan = <<>> /\ phase = "idle" /\ current = "none"
    /\ ran = <<>> /\ failed = {} /\ cmds = <<>>
    /\ createdUserId = <<>> /\ authToken = <<>>
    /\ loginData = <<>> /\ mockData = <<>>
    /\ writer = [v \in SharedVars |-> "none"]
    /\ fixtureLoads = [f \in {"loginData", "mockData"} |-> 0]
    /\ reads = {} /\ routes = <<>> /\ served = <<>>
    /\ browser = [page |-> FALSE, cookies |-> FALSE, localStorage |-> FALSE]

LoginIdle ==
    /\ lcall = [api |-> "none", userType |-> <<>>]
    /\ lkeys = {} /\ lfail = 0
    /\ lpass = [r \in Runs |-> "Password123"]
    /\ lpc = [r \in Runs |-> "idle"]
    /\ lqueue = [r \in Runs |-> <<>>]
    /\ lissued = [r \in Runs |-> <<>>]
    /\ llog = [r \in Runs |-> <<>>]
    /\ lalias = [r \in Runs |-> {}]
    /\ lerr = [r \in Runs |-> <<>>]

TypeIdle ==
    /\ tsubject = "none" /\ ttext = <<>> /\ tprior = <<>>
    /\ tactionable = FALSE /\ tvalue = <<>> /\ tpc = "idle"
    /\ terr = <<>> /\ tlog = <<>> /\ tyield = <<>>

PageIdle ==
    /\ puser = "none" /\ ppass = "none" /\ penv = FALSE
    /\ pcalls = <<>> /\ pqueue = <<>> /\ pret = "none" /\ perr = <<>>

CyEnvIdle ==
    /\ ecmd = "none" /\ ename = "none" /\ edefault = Undefined
    /\ eenv = [n \in {} |-> Undefined]
    /\ eflagsKind = "undefined" /\ eflags = [n \in {} |-> Undefined]
    /\ epc = "idle" /\ elog = <<>> /\ eyield = Undefined

HttpIdle ==
    /\ hcmd = "none" /\ hmethod = <<>> /\ hurl = "none" /\ hbody = <<>>
    /\ hqs = {} /\ hheaders = {} /\ hfailopt = <<>> /\ htoken = <<>>
    /\ hstatus = 0 /\ hpc = "idle" /\ hconfig = <<>> /\ hrequests = <<>>
    /\ hlog = <<>> /\ herr = <<>> /\ hyield = <<>>

SchemaIdle ==
    /\ vbody = [isArray |-> FALSE, items |-> <<>>] /\ vheaders = {}
    /\ vrequired = {} /\ vtypes = [f \in {} |-> ""]
    /\ vexpected = [header |-> "none", value |-> "none"]
    /\ vpc = "idle" /\ verr = <<>> /\ vlog = <<>> /\ vyield = <<>>

TinyIdle ==
    /\ mtext = <<>> /\ mprior = <<>> /\ mframe = FALSE /\ mcontent = <<>>
    /\ mcount = MaxApply /\ mfirst = <<>> /\ merr = <<>>

CfgIdle ==
    /\ cenv = <<>> /\ cmode = "none" /\ cfails = 0 /\ cpc = "idle"
    /\ currentEnv = "none" /\ cconfig = NoConfig /\ csettings = NoSettings
    /\ cattempts = 0 /\ cresult = "none"

\* one commit built by the docker-agent pipeline and by the batch script:
\* the same workspace content, the same tool results
InitCI ==
    /\ hasLock \in BOOLEAN
    /\ preJson \in BOOLEAN
    /\ oracle \in Oracles
    /\ dstage = "Checkout" /\ dresult = "SUCCESS" /\ dtrace = <<>>
    /\ djson = preJson
    /\ dhtml \in BOOLEAN
    /\ bstage = "Install" /\ btrace = <<>> /\ bjson = preJson
    /\ NodeIdle /\ RunIdle /\ LoginIdle /\ TypeIdle /\ PageIdle /\ CyEnvIdle /\ HttpIdle /\ SchemaIdle /\ TinyIdle /\ CfgIdle

NextCI ==
    \/ DockerCheckout
    \/ DockerInstall
    \/ DockerRunCypress
    \/ DockerMerge
    \/ DockerDiagnostics
    \/ DockerPublish
    \/ DockerPost
    \/ BatInstall
    \/ BatToolchain
    \/ BatRunCypress
    \/ BatMerge
    \/ BatDiagnostics
    \/ BatDummy

SpecCI == InitCI /\ [][NextCI]_vars

InitNode ==
    /\ EnvIdle /\ DockerIdle /\ BatIdle /\ RunIdle /\ LoginIdle /\ TypeIdle /\ PageIdle /\ CyEnvIdle /\ HttpIdle /\ SchemaIdle /\ TinyIdle /\ CfgIdle
    /\ variant \in {"Jenkinsfile", "parameterized"}
    /\ isUnix \in BOOLEAN
    /\ SPEC_FILE \in SpecChoices
    /\ CUSTOM_SPECS \in CustomValues
    /\ nstage = "Checkout" /\ nresult = "SUCCESS" /\ ntrace = <<>>
    /\ nstarted = <<>> /\ nresults = <<>> /\ cliSpec = <<>>

NextNode ==
    \/ NodeCheckout
    \/ NodeInstall
    \/ NodeVerify
    \/ NodeRunParam
    \/ NodeRunAll
    \/ NodeRunDay4
    \/ NodePost

SpecNode == InitNode /\ [][NextNode]_vars

\* a describe block is run: any subset of its tests, in any order
InitRun ==
    /\ EnvIdle /\ DockerIdle /\ BatIdle /\ NodeIdle /\ LoginIdle /\ TypeIdle /\ PageIdle /\ CyEnvIdle /\ HttpIdle /\ SchemaIdle /\ TinyIdle /\ CfgIdle
    /\ suite \in Suites
    /\ plan \in Plans(suite)
    /\ phase = "before" /\ current = "none"
    /\ ran = <<>> /\ failed = {} /\ cmds = <<>>
    /\ createdUserId = <<>> /\ authToken = <<>>
    /\ loginData = <<>> /\ mockData = <<>>
    /\ writer = [v \in SharedVars |-> "none"]
    /\ fixtureLoads = [f \in {"loginData", "mockData"} |-> 0]
    /\ reads = {} /\ routes = <<>> /\ served = <<>>
    /\ browser = [page |-> FALSE, cookies |-> FALSE, localStorage |-> FALSE]

NextRun ==
    \/ StartTest
    \/ SkipHook
    \/ AH_before
    \/ AH_beforeEach
    \/ AH_afterEach
    \/ AH_after
    \/ AH_listsUsers
    \/ AH_createsUser
    \/ AH_updatesUser
    \/ CM_apiLogin
    \/ CM_apiAuthRequest
    \/ CM_interceptAndMock
    \/ LG_before
    \/ LG_beforeEach
    \/ LG_test
    \/ LG_afterEach
    \/ LG_after
    \/ MK_before
    \/ MK_inlineMock
    \/ MK_fixtureMock
    \/ AppRequest

SpecRun == InitRun /\ [][NextRun]_vars

Apis == {"cy.login", "LoginPage.loginWithFixture", "LoginPage.login"}

\* the passwords a fixture file may hold
Passwords == {"Password123", "hunter2"}

\* the user types a test may pass, besides those of the fixture
OtherTypes == {"nonexistent", "constructor"}

\* the most commands one call enqueues: cy.login, 2 + 16
MaxCommands == 18

\* the same call made in two runs whose fixtures differ in the password
\* at most; LoginPage.login is called with a user the fixture has
InitLogin ==
    /\ EnvIdle /\ DockerIdle /\ BatIdle /\ NodeIdle /\ RunIdle /\ TypeIdle /\ PageIdle /\ CyEnvIdle /\ HttpIdle /\ SchemaIdle /\ TinyIdle /\ CfgIdle
    /\ \E api \in Apis :
         /\ lkeys \in (SUBSET KeysOf(api)) \ {{}}
         /\ \E t \in {<<>>} \cup {<<k>> : k \in KeysOf(api) \cup OtherTypes} :
               /\ lcall = [api |-> api, userType |-> t]
               /\ api = "LoginPage.login" => UserType \in lkeys
    /\ lpass \in [Runs -> Passwords]
    /\ lfail \in 0..MaxCommands
    /\ lpc = [r \in Runs |-> "start"]
    /\ lqueue = [r \in Runs |-> <<>>]
    /\ lissued = [r \in Runs |-> <<>>]
    /\ llog = [r \in Runs |-> <<>>]
    /\ lalias = [r \in Runs |-> {}]
    /\ lerr = [r \in Runs |-> <<>>]

NextLogin ==
    \E r \in Runs :
       \/ CyLogin(r)
       \/ CyLoginThen(r)
       \/ LoginWithFixture(r)
       \/ LoginWithFixtureThen(r)
       \/ PageLogin(r)
       \/ RunCommand(r)

SpecLogin == InitLogin /\ [][NextLogin]_vars

----------------------------------------------------------------------------
(* Claims about the CI scripts                                             *)

FourStages ==
    <<"Checkout", "Install Dependencies", "Verify Cypress", "Run Cypress Tests">>

\* C4: in the NodeJS-tool pipelines the stages run in the declared order
\* Checkout, Install Dependencies, Verify Cypress, Run Cypress Tests, a stage
\* starts only after the one before it succeeded, and every finished build,
\* failed or not, has archived videos, screenshots and reports in post.
C4_StagesInOrderThenArchive ==
    /\ IsPrefix(SelectIn(nstarted, Range(FourStages)), FourStages)
    /\ \A i \in 1..(Len(nstarted) - 1) : nresults[i]
    /\ nstage = "done" =>
          SelectIn(ntrace, Range(NodeArchive)) = NodeArchive

\* a build that failed in Verify Cypress, never ran the tests, and archived
C4_Witness ==
    /\ nstage = "done"
    /\ nresult = "FAILURE"
    /\ nstarted = <<"Checkout", "Install Dependencies", "Verify Cypress">>
    /\ Range(NodeArchive) \subseteq Range(ntrace)

\* C5: in the docker-agent pipeline, whenever post prints 'Build finished;
\* artifacts uploaded.' the three archiveArtifacts steps have been executed
\* in that build.
C5_ArtifactsUploaded ==
    "echo Build finished; artifacts uploaded." \in Range(dtrace)
        => Range(ArchiveSteps) \subseteq Range(dtrace)

Added(step) == step \in Range(dtrace') /\ step \notin Range(dtrace)

\* C6: in the docker-agent pipeline mochawesome-merge and marge run only
\* when a JSON report exists, publishHTML only when mochawesome.html exists,
\* and a stage whose guard is false skips the step and still succeeds.
C6_GuardedSteps ==
    [][ /\ Added("mochawesome-merge") => djson
        /\ Added("marge") => djson
        /\ Added("publishHTML") => dhtml
        /\ (dstage = "Merge & Generate HTML" /\ ~djson /\ dstage' # dstage)
              => /\ dstage' = "Diagnostics"
                 /\ dresult' = dresult
                 /\ ~Added("mochawesome-merge") /\ ~Added("marge")
        /\ (dstage = "Publish Reports & Artifacts" /\ ~dhtml /\ dstage' # dstage)
              => /\ dstage' = "post"
                 /\ dresult' = dresult
                 /\ ~Added("publishHTML")
      ]_vars

\* a successful build in which both guards were false
C6_Witness ==
    /\ dstage = "done"
    /\ dresult = "SUCCESS"
    /\ ~djson /\ ~dhtml
    /\ "echo No Mochawesome JSON reports found to merge." \in Range(dtrace)
    /\ "echo No mochawesome.html found to publish." \in Range(dtrace)

\* the steps the two scripts have in common, under one name
Canon(step) ==
    IF step \in {"ls cypress", "dir cypress"} THEN "list" ELSE step

CommonSteps ==
    {"npm ci", "npm install", "cypress run", "mochawesome-merge", "marge", "list"}

CommonTrace(trace) ==
    SelectIn([i \in 1..Len(trace) |-> Canon(trace[i])], CommonSteps)

\* C7: for every combination of package-lock.json presence, Cypress run
\* result and JSON report presence (the other tools working), the batch
\* script and the docker-agent pipeline execute the same sequence of
\* install, Cypress run, merge plus HTML generation and file listing.
C7_BatchEquivalent ==
    ( /\ dstage = "done" /\ bstage = "done"
      /\ "cypress run" \in Range(dtrace)
      /\ oracle.merge /\ oracle.marge )
        => CommonTrace(dtrace) = CommonTrace(btrace)

\* C8 as stated: --spec gets CUSTOM_SPECS whenever SPEC_FILE is 'CUSTOM',
\* and the selected SPEC_FILE otherwise.
C8_Original ==
    (variant = "parameterized" /\ cliSpec # <<>>)
        => cliSpec[1] = IF SPEC_FILE = <<"CUSTOM">> THEN CUSTOM_SPECS
                        ELSE SPEC_FILE

\* C8 amended: --spec gets CUSTOM_SPECS when SPEC_FILE is 'CUSTOM' and
\* CUSTOM_SPECS holds something other than white space; in every other case,
\* a blank CUSTOM_SPECS with SPEC_FILE 'CUSTOM' included, it gets SPEC_FILE.
C8_SpecArgument ==
    (variant = "parameterized" /\ cliSpec # <<>>)
        => cliSpec[1] =
              IF /\ SPEC_FILE = <<"CUSTOM">>
                 /\ \E i \in 1..Len(CUSTOM_SPECS) : CUSTOM_SPECS[i] # " "
              THEN CUSTOM_SPECS
              ELSE SPEC_FILE

\* 'CUSTOM' selected, CUSTOM_SPECS blank: the literal CUSTOM is the spec
C8_Witness ==
    /\ variant = "parameterized"
    /\ SPEC_FILE = <<"CUSTOM">>
    /\ CUSTOM_SPECS = <<" ">>
    /\ cliSpec = << <<"CUSTOM">> >>

----------------------------------------------------------------------------
(* Claims about test runs                                                  *)

\* a read, by somebody else, of a value that a test wrote
CrossRead(r) == r.writer \in AllTests /\ r.reader # r.writer

\* C1 as stated: no value written during one test (suite-level variable or
\* Cypress.env entry) is read by a later test or hook.
C1_Original == \A r \in reads : ~CrossRead(r)

\* C1 amended: the only values written during one test and read later are
\* createdUserId, read by the after() hook of the API Hooks Demo suite, which
\* issues its DELETE exactly when the POST test stored a non-zero id, and the
\* Cypress.env entry authToken, read by cy.apiAuthRequest; the test bodies
\* and the other hooks of the API Hooks Demo suite read nothing a test wrote.
C1_SharedOnlyWithAfterAndAuth ==
    /\ \A r \in reads :
          CrossRead(r) =>
             \/ r.var = "createdUserId" /\ r.reader = "after()"
             \/ r.var = "authToken" /\ r.reader = "calls cy.apiAuthRequest"
    /\ (suite = "ApiHooksDemo" /\ phase = "done") =>
          ( (\E i \in 1..Len(cmds) :
                cmds[i].by = "after()" /\ cmds[i].cmd = "cy.request")
            <=> \E id \in Ids \ {"0"} :
                   /\ createdUserId = <<id>>
                   /\ "creates a user and captures its id" \in Range(ran) )

\* the POST test ran, then another test, and after() deleted the user
C1_Witness ==
    /\ suite = "ApiHooksDemo" /\ phase = "done"
    /\ Len(ran) >= 2
    /\ \E i \in 1..Len(cmds) :
          cmds[i] = [by |-> "after()", cmd |-> "cy.request",
                     arg |-> <<"DELETE", "/users/", "11">>]

\* C2: an intercept registered during a test is scoped to that test: no
\* intercept is active when a test starts, every active intercept was
\* registered by the running test, and no request is answered by a mock that
\* another test registered.
C2_InterceptScopedToTest ==
    /\ phase = "beforeEach" => routes = <<>>
    /\ \A i \in 1..Len(routes) : routes[i].owner = current
    /\ \A i \in 1..Len(served) : served[i].owner \in {"network", served[i].by}

\* two tests mocked GET /api/users; a request of the second test was
\* answered by the mock of the second test
C2_Witness ==
    /\ Len(ran) = 2
    /\ \E i \in 1..Len(cmds) : cmds[i].cmd = "cy.intercept" /\ cmds[i].by = ran[1]
    /\ \E i \in 1..Len(served) :
          served[i].by = ran[2] /\ served[i].owner = ran[2]

FixtureVars == {"loginData", "mockData"}

----------------------------------------------------------------------------
(* Claims about the login command, checked under SpecLogin                 *)

IssuedCmds(r) == {lissued[r][i].cmd : i \in 1..Len(lissued[r])}

\* the fixture file was read: the first command of the call did not fail
FixtureRead == lfail # 1

\* C9: a login by fixture, cy.login or LoginPage.loginWithFixture, whose
\* user type is not a key of the fixture that was read ends with the "User
\* type not found" error, having issued no visit, type or click command
\* and having set no currentUser alias.
C9_MissingKeyFailsFast ==
    \A r \in Runs :
       ( /\ lcall.api \in {"cy.login", "LoginPage.loginWithFixture"}
         /\ lpc[r] = "done" /\ FixtureRead
         /\ UserType \notin lkeys )
       => /\ lerr[r] \in {<<"User type not found in fixture data">>,
                          <<"User type not found in loginCredentials fixture">>}
          /\ IssuedCmds(r) \cap {"visit", "type", "click"} = {}
          /\ "currentUser" \notin lalias[r]

\* C10: two runs of the same login that differ in nothing but the password
\* of the fixture end with the same command log.
C10_PasswordNeverLogged ==
    (\A r \in Runs : lpc[r] = "done") => llog[1] = llog[2]

----------------------------------------------------------------------------
(* cy.typeAndVerify called on a field                                      *)

\* a field with any content, a text of any keys
InitType ==
    /\ EnvIdle /\ DockerIdle /\ BatIdle /\ NodeIdle /\ RunIdle /\ LoginIdle /\ PageIdle /\ CyEnvIdle /\ HttpIdle /\ SchemaIdle /\ TinyIdle /\ CfgIdle
    /\ tsubject \in Fields
    /\ ttext \in TextsOver(Chars \cup SpecialKeys)
    /\ tprior \in TextsOver(Chars)
    /\ tactionable \in BOOLEAN
    /\ tvalue = tprior
    /\ tpc = "clear"
    /\ terr = <<>> /\ tlog = <<>> /\ tyield = <<>>

NextType ==
    \/ TV_clear
    \/ TV_type
    \/ TV_should
    \/ TV_log
    \/ TV_wrap

SpecType == InitType /\ [][NextType]_vars

\* C11: whatever the prior content of the field, cy.typeAndVerify(text)
\* succeeds exactly when the field can be typed into and text is a non-empty
\* text of plain characters; when it succeeds the value of the field is
\* exactly text and the command yields the element it was called on; when it
\* fails nothing is yielded.
C11_TypeAndVerify ==
    tpc = "done" =>
       /\ terr = <<>> <=> ( /\ tactionable
                            /\ ttext # <<>>
                            /\ \A i \in 1..Len(ttext) : ttext[i] \in Chars )
       /\ terr = <<>> => tvalue = ttext /\ tyield = <<tsubject>>
       /\ terr # <<>> => tyield = <<>>

\* the command succeeded on a field that held something else
C11_Witness ==
    /\ tpc = "done" /\ terr = <<>>
    /\ tprior # <<>> /\ tprior # ttext
    /\ tvalue = ttext /\ tyield = <<tsubject>>

----------------------------------------------------------------------------
(* A test body using the LoginPage page object                             *)

\* the credentials TC05 and TC06 pass, and a wrong password
PageUsers == {"tomsmith"}
PagePasswords == {"SuperSecretPassword!", "wrong"}

\* the test holds the exported instance and has called nothing yet
InitPage ==
    /\ EnvIdle /\ DockerIdle /\ BatIdle /\ NodeIdle /\ RunIdle /\ LoginIdle /\ TypeIdle /\ CyEnvIdle /\ HttpIdle /\ SchemaIdle /\ TinyIdle /\ CfgIdle
    /\ puser \in PageUsers /\ ppass \in PagePasswords
    /\ penv \in BOOLEAN
    /\ pcalls = <<>> /\ pqueue = <<>> /\ perr = <<>>
    /\ pret = "LoginPage"

NextPage == \E m \in Methods : PageCall(m)

SpecPage == InitPage /\ [][NextPage]_vars

\* clear and type the username, clear and type the password (unlogged),
\* click the login button, each on its locator
FluentLogin ==
    << Command("get", <<"usernameInput">>), Command("first", <<>>),
       Command("clear", <<>>), Command("type", <<puser>>),
       Command("get", <<"passwordInput">>), Command("first", <<>>),
       Command("clear", <<>>), Unlogged("type", <<ppass>>),
       Command("get", <<"loginButton">>), Command("first", <<>>),
       Command("click", <<>>) >>

\* C12: every method of LoginPage that returns, returns the instance it was
\* called on, so calls can be chained; and login(username, password)
\* enqueues exactly the commands that the chain enterUsername(username)
\* .enterPassword(password).clickLoginButton() enqueues: clear and type the
\* username, clear and type the password, click the login button.
C12_FluentPageObject ==
    /\ (pcalls # <<>> /\ perr = <<>>) => pret = "LoginPage"
    /\ pcalls = <<"login">> => pqueue = FluentLogin
    /\ pcalls = <<"enterUsername", "enterPassword", "clickLoginButton">>
          => pqueue = FluentLogin

\* the chain of TC05 was made
C12_Witness ==
    /\ pcalls = <<"enterUsername", "enterPassword", "clickLoginButton">>
    /\ pqueue = FluentLogin /\ pret = "LoginPage"

----------------------------------------------------------------------------
(* The environment-variable commands                                       *)

\* the variables and flags envvariable.cy.js asks for
EnvNames == {"environment", "nonExistentVar"}
FlagNames == {"darkMode", "betaFeatures"}

EnvValues == {Undefined, Null, Str("qa")}
FlagValues == {Undefined, Bool(TRUE), Bool(FALSE), Str("true")}
Defaults == {Undefined, Null, Str("default-value")}

\* one of the two commands is called, with any environment
InitCyEnv ==
    /\ EnvIdle /\ DockerIdle /\ BatIdle /\ NodeIdle /\ RunIdle /\ LoginIdle /\ TypeIdle /\ PageIdle /\ HttpIdle /\ SchemaIdle /\ TinyIdle /\ CfgIdle
    /\ \/ /\ ecmd = "getEnvVariable"
          /\ ename \in EnvNames
          /\ edefault \in Defaults
          /\ eenv \in [EnvNames -> EnvValues]
          /\ eflagsKind = "undefined"
          /\ eflags = [n \in FlagNames |-> Undefined]
       \/ /\ ecmd = "checkFeatureFlag"
          /\ ename \in FlagNames \cup {"constructor"}
          /\ edefault = Undefined
          /\ eenv = [n \in EnvNames |-> Undefined]
          /\ \/ eflagsKind = "object" /\ eflags \in [FlagNames -> FlagValues]
             \/ /\ eflagsKind \in {"undefined", "null"}
                /\ eflags = [n \in FlagNames |-> Undefined]
    /\ epc = "call" /\ elog = <<>> /\ eyield = Undefined

NextCyEnv ==
    \/ GetEnvVariable
    \/ CheckFeatureFlag

SpecCyEnv == InitCyEnv /\ [][NextCyEnv]_vars

IsSet(name) == eenv[name] # Undefined

C14_FeatureFlagBoolean ==
    (ecmd = "checkFeatureFlag" /\ epc = "done") =>
       /\ eyield \in {Bool(TRUE), Bool(FALSE)}
       /\ eyield = Bool(TRUE) <=>
             ( /\ eflagsKind = "object"
               /\ ename \in FlagNames
               /\ eflags[ename] = Bool(TRUE) )

\* no featureFlags variable is set, and the command yielded false
C14_Witness ==
    /\ ecmd = "checkFeatureFlag" /\ epc = "done"
    /\ eflagsKind = "undefined" /\ eyield = Bool(FALSE)

----------------------------------------------------------------------------
(* The API request commands                                                *)

HttpMethods == {"GET", "POST", "PUT", "PATCH", "DELETE"}
CrudHelpers == {"apiCreate", "apiRead", "apiUpdate", "apiPatch", "apiDelete"}
ApiUrls == {"https://jsonplaceholder.typicode.com/posts",
            "https://jsonplaceholder.typicode.com/posts/1"}

\* the statuses a server answers with; 0 stands for no answer at all
Statuses == {0, 200, 201, 204, 304, 404, 500}

\* one command called with any arguments its signature takes
InitHttp ==
    /\ EnvIdle /\ DockerIdle /\ BatIdle /\ NodeIdle /\ RunIdle /\ LoginIdle /\ TypeIdle /\ PageIdle /\ CyEnvIdle /\ SchemaIdle /\ TinyIdle /\ CfgIdle
    /\ hcmd \in CrudHelpers \cup {"apiRequest", "apiAuthRequest"}
    /\ hurl \in ApiUrls
    /\ hheaders \in {{}, {"X-Custom-Header"}}
    /\ hbody \in (IF hcmd \in {"apiRead", "apiDelete"} THEN {<<>>}
                  ELSE {<<>>, <<"newPost">>})
    /\ hqs \in (IF hcmd \in {"apiRead", "apiRequest", "apiAuthRequest"}
                THEN {{}, {"_limit"}} ELSE {{}})
    /\ IF hcmd \in {"apiRequest", "apiAuthRequest"}
       THEN /\ hmethod \in {<<>>} \cup {<<m>> : m \in HttpMethods}
            /\ hfailopt \in {<<>>, <<TRUE>>, <<FALSE>>}
       ELSE hmethod = <<>> /\ hfailopt = <<>>
    /\ htoken \in (IF hcmd = "apiAuthRequest" THEN {<<>>, <<"QpwL5tke4Pnpja7X4">>}
                   ELSE {<<>>})
    /\ hstatus \in Statuses
    /\ hpc = "call" /\ hconfig = <<>> /\ hrequests = <<>>
    /\ hlog = <<>> /\ herr = <<>> /\ hyield = <<>>

NextHttp ==
    \/ ApiRequest
    \/ ApiAuthRequest
    \/ ApiCreate
    \/ ApiRead
    \/ ApiUpdate
    \/ ApiPatch
    \/ ApiDelete
    \/ CyRequest

SpecHttp == InitHttp /\ [][NextHttp]_vars

CrudMethod(cmd) ==
    CASE cmd = "apiCreate" -> "POST"
      [] cmd = "apiRead" -> "GET"
      [] cmd = "apiUpdate" -> "PUT"
      [] cmd = "apiPatch" -> "PATCH"
      [] cmd = "apiDelete" -> "DELETE"

\* C15: a CRUD helper issues exactly one request, with its own method, to
\* the url it was given; when the server answers, the helper yields the
\* response to that request; the request has a body only if the method is
\* POST, PUT or PATCH and a body was given.
C15_CrudHelpers ==
    (hcmd \in CrudHelpers /\ hpc = "done") =>
       /\ Len(hrequests) = 1
       /\ hrequests[1].method = CrudMethod(hcmd)
       /\ hrequests[1].url = hurl
       /\ hrequests[1].body # <<>> =>
             /\ hrequests[1].method \in {"POST", "PUT", "PATCH"}
             /\ hbody # <<>> /\ hrequests[1].body = hbody
       /\ hstatus # 0 =>
             /\ herr = <<>>
             /\ hyield = <<[status |-> hstatus, method |-> CrudMethod(hcmd),
                            url |-> hurl]>>

\* apiUpdate sent one PUT with the body given and yielded the response
C15_Witness ==
    /\ hcmd = "apiUpdate" /\ hpc = "done"
    /\ hrequests = <<hconfig[1]>> /\ hrequests[1].method = "PUT"
    /\ hbody # <<>> /\ hrequests[1].body = hbody
    /\ hyield # <<>> /\ hyield[1].status = 200

\* C16: a command fails on the status of an answer only if that status is
\* not 2xx and the caller passed failOnStatusCode: true; with the option
\* left out or false, and in every CRUD helper, any status that the server
\* answers with is yielded to the next command.
C16_FailOnStatusCode ==
    hpc = "done" =>
       /\ (herr # <<>> /\ hstatus # 0) =>
             /\ hfailopt = <<TRUE>>
             /\ ~(hstatus >= 200 /\ hstatus < 300)
       /\ (hfailopt # <<TRUE>> /\ hstatus # 0) =>
             /\ herr = <<>>
             /\ hyield # <<>> /\ hyield[1].status = hstatus

\* cy.apiRequest without the option yielded a 404 response
C16_Witness ==
    /\ hcmd = "apiRequest" /\ hpc = "done"
    /\ hfailopt = <<>> /\ hstatus = 404
    /\ herr = <<>> /\ hyield # <<>> /\ hyield[1].status = 404

----------------------------------------------------------------------------
(* Schema and header validation of a response                              *)

FieldValues == {Undefined, Null, Num(1), Str("qui est esse")}
Objects == [SchemaFields -> FieldValues]

\* the longest array a response body holds
MaxItems == 2

Bodies ==
    {[isArray |-> FALSE, items |-> <<o>>] : o \in Objects}
       \cup {[isArray |-> TRUE, items |-> s] :
                s \in UNION {[1..n -> Objects] : n \in 0..MaxItems}}

TypeNames == {"", "number", "string"}

\* a response of any body, validated against any schema
InitSchema ==
    /\ EnvIdle /\ DockerIdle /\ BatIdle /\ NodeIdle /\ RunIdle /\ LoginIdle /\ TypeIdle /\ PageIdle /\ CyEnvIdle /\ HttpIdle /\ TinyIdle /\ CfgIdle
    /\ vbody \in Bodies
    /\ vheaders \in {{"application/json", "charset=utf-8"}, {"text/html"}}
    /\ vrequired \in SUBSET SchemaFields
    /\ vtypes \in [SchemaFields -> TypeNames]
    /\ vexpected \in {[header |-> h, value |-> "application/json"] :
                         h \in {"content-type", "Content-Type"}}
    /\ vpc = "schema" /\ verr = <<>> /\ vlog = <<>> /\ vyield = <<>>

NextSchema ==
    \/ ValidateSchema
    \/ ValidateHeaders

SpecSchema == InitSchema /\ [][NextSchema]_vars

\* field f is a property of the part of the body that is checked: the body,
\* or the first element of an array body
HasField(f) == vbody.items # <<>> /\ vbody.items[1][f] # Undefined

\* the schema as the claim reads it
SchemaHolds ==
    /\ \A f \in vrequired : HasField(f)
    /\ \A f \in SchemaFields :
          (vtypes[f] # "" /\ HasField(f)) => TypeOf(vbody.items[1][f]) = vtypes[f]

SchemaPassed ==
    \E i \in 1..Len(vlog) : vlog[i] = "Schema validation passed"

\* C17: validateSchema passes exactly when every required field is a
\* property of the body and every typed field present in the body has the
\* listed typeof, an array body being checked by its first element only;
\* when it passes it yields the response unchanged, and validateHeaders runs
\* on that response.
C17_ValidateSchema ==
    vpc \in {"headers", "done"} =>
       /\ SchemaPassed <=> SchemaHolds
       /\ (SchemaPassed /\ vpc = "headers") => vyield = <<Response>>
       /\ (vpc = "done" /\ verr = <<>>) => vyield = <<Response>>

----------------------------------------------------------------------------
(* The TinyMCE editor command                                              *)

\* an editor with any paragraphs, a text of any characters and markup
InitTiny ==
    /\ EnvIdle /\ DockerIdle /\ BatIdle /\ NodeIdle /\ RunIdle /\ LoginIdle /\ TypeIdle /\ PageIdle /\ CyEnvIdle /\ HttpIdle /\ SchemaIdle /\ CfgIdle
    /\ mtext \in TextsOver(Chars \cup Markup)
    /\ mprior \in UNION {[1..n -> TextsOver(Chars)] : n \in 0..MaxText}
    /\ mframe \in BOOLEAN
    /\ mcontent = mprior
    /\ mcount = 0 /\ mfirst = <<>> /\ merr = <<>>

NextTiny == TypeInTinyMce

SpecTiny == InitTiny /\ [][NextTiny]_vars

\* C18: after cy.typeInTinyMce(iframeSelector, text) the iframe body holds
\* exactly one paragraph, whose text is text, whatever it held before; and
\* a second application with the same text leaves what the first one left.
C18_ReplacesContent ==
    mcount >= 1 =>
       /\ mcontent = <<mtext>>
       /\ mcount = 2 => mcontent = mfirst[1]

----------------------------------------------------------------------------
(* The environment configuration of a run                                  *)

\* the values CYPRESS_ENV is given: those of the usage notes, the keys of
\* environments, the empty string and a name that is no environment
CypressEnvValues ==
    {<<>>, <<"">>, <<"prod">>, <<"uat">>} \cup {<<k>> : k \in EnvironmentKeys}

\* the most failing attempts of a test
MaxFails == 3

InitCfg ==
    /\ EnvIdle /\ DockerIdle /\ BatIdle /\ NodeIdle /\ RunIdle /\ LoginIdle /\ TypeIdle /\ PageIdle /\ CyEnvIdle /\ HttpIdle /\ SchemaIdle /\ TinyIdle
    /\ cenv \in CypressEnvValues
    /\ cmode \in {"run", "open"}
    /\ cfails \in 0..MaxFails
    /\ cpc = "envconfig"
    /\ currentEnv = "none" /\ cconfig = NoConfig /\ csettings = NoSettings
    /\ cattempts = 0 /\ cresult = "none"

NextCfg ==
    \/ LoadEnvConfig
    \/ DefineConfig
    \/ TestAttempt

SpecCfg == InitCfg /\ [][NextCfg]_vars

\* C19: with CYPRESS_ENV=prod the run uses the production configuration
\* (name 'production', retries 2, timeout 15000), and with CYPRESS_ENV unset
\* it uses the qa configuration.
C19_ProdSelectsProduction ==
    cpc \in {"test", "done"} =>
       /\ cenv = <<"prod">> =>
             /\ cconfig.name = "production"
             /\ csettings.retries.runMode = 2
             /\ csettings.defaultCommandTimeout = 15000
       /\ cenv = <<>> => cconfig = environments["qa"]

----------------------------------------------------------------------------
(* The hooks of the Login suite, checked under SpecRun                     *)

\* the first cy.log of each hook and of each test body
HookStart(c) ==
    IF c.cmd # "cy.log" THEN "none"
    ELSE CASE c.arg[1] = "BEFORE HOOK: Suite-level setup starting" -> "before"
           [] c.arg[1] = "BEFORE EACH: Test-level setup starting" -> "beforeEach"
           [] c.arg[1] \in {"Starting valid login test...",
                            "Starting invalid username test...",
                            "Starting invalid password test..."} -> "test"
           [] c.arg[1] = "AFTER EACH: Test-level cleanup starting" -> "afterEach"
           [] c.arg[1] = "AFTER HOOK: Suite-level teardown starting" -> "after"
           [] OTHER -> "none"

\* the hooks and test bodies that started, in order, each with its owner
HookTrace ==
    LET starts == SelectIn(cmds, {c \in Range(cmds) : HookStart(c) # "none"})
    IN  [i \in 1..Len(starts) |->
           [hook |-> HookStart(starts[i]), by |-> starts[i].by]]

RECURSIVE TestHooks(_)
TestHooks(tests) ==
    IF tests = <<>> THEN <<>>
    ELSE << [hook |-> "beforeEach", by |-> Head(tests)],
            [hook |-> "test", by |-> Head(tests)],
            [hook |-> "afterEach", by |-> Head(tests)] >>
         \o TestHooks(Tail(tests))

----------------------------------------------------------------------------
(* The order of the commands of cy.login, checked under SpecLogin          *)

\* the commands a run issued, cy.log left out, each as command and argument
IssuedSteps(r) ==
    LET s == SelectIn(lissued[r], {c \in Range(lissued[r]) : c.cmd # "log"})
    IN  [i \in 1..Len(s) |-> <<s[i].cmd>> \o s[i].arg]

\* the entries the command log gets when every issued command has run; a
\* .then callback leaves none
LoggedOf(r) ==
    LET s == SelectIn(lissued[r],
                      {c \in Range(lissued[r]) : c.log /\ c.cmd # "then"})
    IN  [i \in 1..Len(s) |-> [cmd |-> s[i].cmd, arg |-> s[i].arg]]

\* visit, username, password, checked click, alias: the steps in order
LinearLogin(r) ==
    << <<"fixture", "customCommandData">>, <<"then">>,
       <<"visit", "loginPage.url">>,
       <<"get", "selectors.usernameInput">>, <<"should", "be.visible">>,
       <<"clear">>, <<"type", "student">>,
       <<"get", "selectors.passwordInput">>, <<"should", "be.visible">>,
       <<"clear">>, <<"type", lpass[r]>>,
       <<"get", "selectors.submitButton">>, <<"should", "be.visible">>,
       <<"and", "not.be.disabled">>, <<"click">>,
       <<"wrap", "student", lpass[r]>>, <<"as", "currentUser">> >>

\* C21: cy.login for a user type of the fixture issues, in this order and
\* once each, visit, clear and type of the username, clear and type of the
\* password, the visible and not-disabled assertions and then the click of
\* the submit button, and the alias currentUser of the wrapped user
\* record; at any moment what was issued is an initial part of that
\* sequence, the commands run in the order issued, and the alias is set by
\* the last command only.
C21_LinearLogin ==
    \A r \in Runs :
       (lcall.api = "cy.login" /\ UserType \in lkeys) =>
          /\ IsPrefix(IssuedSteps(r), LinearLogin(r))
          /\ IsPrefix(llog[r], LoggedOf(r))
          /\ (lpc[r] = "done" /\ lerr[r] = <<>>) =>
                /\ IssuedSteps(r) = LinearLogin(r)
                /\ llog[r] = LoggedOf(r)
                /\ "currentUser" \in lalias[r]
          /\ "currentUser" \in lalias[r] =>
                lpc[r] = "done" /\ lerr[r] = <<>>

\* cy.login('admin') ran to its end in the first run
C21_Witness ==
    /\ lcall = [api |-> "cy.login", userType |-> <<"admin">>]
    /\ "admin" \in lkeys
    /\ lpc[1] = "done" /\ lerr[1] = <<>>
    /\ Len(lissued[1]) = 18 /\ lqueue[1] = <<>>
    /\ "currentUser" \in lalias[1]

====
